---- MODULE Spec2Model ----
(***************************************************************************)
(* State-machine model of the signal-generation and risk-validation core   *)
(* of repalgo: RiskManager (core/risk.py), PaperTradingEngine              *)
(* (core/paper_trade.py), LiveTradingEngine (core/live_trade.py) and       *)
(* AISignalEngine (core/signals.py).                                       *)
(*                                                                         *)
(* Conventions.  Every Python object is one record-valued variable whose   *)
(* fields carry the attribute names of the source.  Python dicts are       *)
(* functions with a STRING domain; d.get(k, default) is Get(d, k, default).*)
(* Money is an integer number of rupees.  Fractional settings are kept as  *)
(* integer percentages (0.10 is 10) and comparisons on quotients are       *)
(* cross-multiplied, so the arithmetic is exact.  Timestamps and free text *)
(* (entry_time, reasoning strings) are not part of the state.              *)
(***************************************************************************)
EXTENDS Integers, Sequences, FiniteSets, TLC

VARIABLES now, uuid, risk, paper, live, engine, disk, ret, hist, learner

vars == <<now, uuid, risk, paper, live, engine, disk, ret, hist, learner>>

None == "None"

Get(d, k, default) == IF k \in DOMAIN d THEN d[k] ELSE default

RECURSIVE SumSeq(_)
SumSeq(s) == IF s = <<>> THEN 0 ELSE Head(s) + SumSeq(Tail(s))

Abs(x) == IF x < 0 THEN 0 - x ELSE x

(***************************************************************************)
(* Bounds of the model.                                                    *)
(***************************************************************************)
MaxTracked == 3
MaxOpened == 2
MaxLiveTrades == 1
MaxSignals == 1
MaxLearn == 1
MaxOutcomes == 2
MaxConstructed == 1

\* add_learning_record calls that append a record, per behaviour
MaxAdded == 3

(***************************************************************************)
(* The wall clock read by datetime.now(): weekday() (0 is Monday), hour,   *)
(* minute, second.  The instants are the ones around the window edges.     *)
(***************************************************************************)
At(wd, h, m, s) == [weekday |-> wd, hour |-> h, minute |-> m, second |-> s]

ClockInputs ==
    { At(0, 3, 0, 0), At(0, 12, 0, 0), At(0, 15, 30, 30), At(5, 12, 0, 0) }

\* Python tuple comparison of (hour, minute) pairs
TupleGE(a, b) == a[1] > b[1] \/ (a[1] = b[1] /\ a[2] >= b[2])
TupleLE(a, b) == a[1] < b[1] \/ (a[1] = b[1] /\ a[2] <= b[2])

(***************************************************************************)
(* RiskManager                                                             *)
(***************************************************************************)
RiskManagerInit ==
    [ max_loss_per_trade |-> 5000,
      max_daily_loss |-> 15000,
      max_portfolio_risk |-> 50000,
      max_positions_per_symbol |-> 3,
      max_total_positions |-> 10,
      stop_loss_percent |-> 10,
      take_profit_percent |-> 20,
      position_size_percent |-> 2,
      min_volume |-> 1000,
      max_bid_ask_spread |-> 5,
      min_open_interest |-> 5000,
      market_open_time |-> <<9, 15>>,
      market_close_time |-> <<15, 30>>,
      no_trade_before |-> <<9, 20>>,
      no_trade_after |-> <<15, 15>>,
      enabled |-> TRUE,
      daily_pnl |-> 0,
      current_positions |-> <<>> ]

\* validate_trading_time without the weekday test
TradingTimeAnyDay(r, t) ==
    /\ TupleGE(<<t.hour, t.minute>>, r.market_open_time)
    /\ TupleLE(<<t.hour, t.minute>>, r.market_close_time)
    /\ TupleGE(<<t.hour, t.minute>>, r.no_trade_before)
    /\ TupleLE(<<t.hour, t.minute>>, r.no_trade_after)

validate_trading_time(r, t) ==
    LET current_time == <<t.hour, t.minute>>
        within_market_hours ==
            TupleGE(current_time, r.market_open_time)
            /\ TupleLE(current_time, r.market_close_time)
        not_in_early_restriction == TupleGE(current_time, r.no_trade_before)
        not_in_late_restriction == TupleLE(current_time, r.no_trade_after)
        is_weekday == t.weekday < 5
    IN  within_market_hours /\ not_in_early_restriction
        /\ not_in_late_restriction /\ is_weekday

\* len([p for p in current_positions if p['symbol'] == symbol])
SymbolPositions(r, symbol) ==
    Len(SelectSeq(r.current_positions, LAMBDA p : p.symbol = symbol))

\* the position-limit check with > written for >=
PositionLimitsOffByOne(r, signal) ==
    IF SymbolPositions(r, signal.symbol) > r.max_positions_per_symbol
    THEN FALSE
    ELSE IF Len(r.current_positions) > r.max_total_positions
    THEN FALSE
    ELSE TRUE

validate_position_limits(r, signal) ==
    IF SymbolPositions(r, signal.symbol) >= r.max_positions_per_symbol
    THEN FALSE
    ELSE IF Len(r.current_positions) >= r.max_total_positions
    THEN FALSE
    ELSE TRUE

\* sum(p.get('current_value', 0) for p in current_positions)
CurrentPortfolioValue(r) ==
    SumSeq([i \in 1..Len(r.current_positions) |->
               Get(r.current_positions[i], "current_value", 0)])

EstimatedTradeValue(signal) == Get(signal, "price", 0) * Get(signal, "quantity", 1)

validate_risk_limits(r, signal) ==
    IF EstimatedTradeValue(signal) > r.max_loss_per_trade
    THEN FALSE
    ELSE IF CurrentPortfolioValue(r) + EstimatedTradeValue(signal) > r.max_portfolio_risk
    THEN FALSE
    ELSE TRUE

validate_daily_loss_limit(r) == Abs(r.daily_pnl) < r.max_daily_loss

validate_liquidity(r, signal) ==
    IF Get(signal, "volume", 0) < r.min_volume
    THEN FALSE
    ELSE IF Get(signal, "open_interest", 0) < r.min_open_interest
    THEN FALSE
    ELSE TRUE

\* (ask - bid) / ltp <= max_bid_ask_spread, the setting being a percentage
validate_spread(r, signal) ==
    LET bid == Get(signal, "bid", 0)
        ask == Get(signal, "ask", 0)
        ltp == Get(signal, "price", 0)
    IN  IF ltp = 0 \/ ask <= bid
        THEN FALSE
        ELSE (ask - bid) * 100 <= r.max_bid_ask_spread * ltp

\* iv / 100 > 0.50 and iv / 100 < 0.05, iv being a percentage
validate_volatility(r, signal) ==
    LET iv == Get(signal, "iv", 20)
    IN  IF iv > 50 THEN FALSE
        ELSE IF iv < 5 THEN FALSE
        ELSE TRUE

\* the keys of validation_results, in insertion order
CheckNames ==
    << "time_check", "position_limit_check", "risk_limit_check",
       "liquidity_check", "spread_check", "volatility_check",
       "daily_loss_check" >>

CheckSet == { CheckNames[i] : i \in 1..Len(CheckNames) }

ValidationResults(r, t, signal) ==
    [ time_check |-> validate_trading_time(r, t),
      position_limit_check |-> validate_position_limits(r, signal),
      risk_limit_check |-> validate_risk_limits(r, signal),
      liquidity_check |-> validate_liquidity(r, signal),
      spread_check |-> validate_spread(r, signal),
      volatility_check |-> validate_volatility(r, signal),
      daily_loss_check |-> validate_daily_loss_limit(r) ]

\* all(validation_results.values())
AllChecksPass(r, t, signal) == \A c \in CheckSet : ValidationResults(r, t, signal)[c]

\* the checks whose result is False
FailedChecks(r, t, signal) == { c \in CheckSet : ~ValidationResults(r, t, signal)[c] }

\* failed_checks as log_validation prints them; <<>> when nothing is printed
log_validation(signal, validation_results) ==
    SelectSeq(CheckNames, LAMBDA c : ~validation_results[c])

\* validate_trade with time_check left out of all()
ValidateTradeIgnoringTime(r, t, signal) ==
    IF ~r.enabled
    THEN TRUE
    ELSE \A c \in CheckSet \ {"time_check"} : ValidationResults(r, t, signal)[c]

\* the value validate_trade returns
ValidateTradeValue(r, t, signal) ==
    IF ~r.enabled
    THEN TRUE
    ELSE AllChecksPass(r, t, signal)

\* what validate_trade writes to stdout
ValidateTradePrinted(r, t, signal) ==
    IF ~r.enabled
    THEN <<>>
    ELSE log_validation(signal, ValidationResults(r, t, signal))

\* int(x) for the quotient a / b with b > 0: truncation toward zero
IntQuotient(a, b) == IF a >= 0 THEN a \div b ELSE 0 - ((0 - a) \div b)

\* calculate_position_size without the closing max(1, lots)
PositionSizeUnclamped(r, signal, available_capital) ==
    IF available_capital <= 0
    THEN 0
    ELSE LET price_per_lot == Get(signal, "price", 0) * Get(signal, "lot_size", 75)
         IN  IF price_per_lot <= 0
             THEN 1
             ELSE IntQuotient(IF available_capital * r.position_size_percent
                                     <= r.max_loss_per_trade * 100
                              THEN available_capital * r.position_size_percent
                              ELSE r.max_loss_per_trade * 100,
                              100 * price_per_lot)

\* position_size_percent is a percentage, so the amounts are in hundredths
calculate_position_size(r, signal, available_capital) ==
    IF available_capital <= 0
    THEN 0
    ELSE LET price_per_lot == Get(signal, "price", 0) * Get(signal, "lot_size", 75)
             max_amount == available_capital * r.position_size_percent
             risk_based_amount ==
                 IF max_amount <= r.max_loss_per_trade * 100
                 THEN max_amount
                 ELSE r.max_loss_per_trade * 100
             lots == IntQuotient(risk_based_amount, 100 * price_per_lot)
         IN  IF price_per_lot <= 0
             THEN 1
             ELSE IF lots >= 1 THEN lots ELSE 1

calculate_stop_loss(r, entry_price, option_type) ==
    IF option_type \in {"CE", "CALL"}
    THEN (entry_price * (100 - r.stop_loss_percent)) \div 100
    ELSE (entry_price * (100 - r.stop_loss_percent)) \div 100

calculate_take_profit(r, entry_price, option_type) ==
    (entry_price * (100 + r.take_profit_percent)) \div 100

\* the position dict add_position appends
TrackedPosition(r, trade_data) ==
    [ id |-> Get(trade_data, "id", None),
      symbol |-> Get(trade_data, "symbol", None),
      strike |-> Get(trade_data, "strike", None),
      type |-> Get(trade_data, "type", None),
      quantity |-> Get(trade_data, "quantity", 1),
      entry_price |-> Get(trade_data, "entry_price", None),
      stop_loss |-> calculate_stop_loss(r, Get(trade_data, "entry_price", 0),
                                        Get(trade_data, "type", "CE")),
      take_profit |-> calculate_take_profit(r, Get(trade_data, "entry_price", 0),
                                            Get(trade_data, "type", "CE")),
      current_price |-> Get(trade_data, "entry_price", None),
      unrealized_pnl |-> 0,
      status |-> "open" ]

add_position(r, trade_data) ==
    [r EXCEPT !.current_positions = Append(@, TrackedPosition(r, trade_data))]

remove_position(r, position_id) ==
    [r EXCEPT !.current_positions = SelectSeq(@, LAMBDA p : p.id # position_id)]

\* for key, value in new_settings.items(): if hasattr(self, key): setattr
update_settings(r, new_settings) ==
    [k \in DOMAIN r |-> IF k \in DOMAIN new_settings THEN new_settings[k] ELSE r[k]]

(***************************************************************************)
(* PaperTradingEngine.  uuid4() is a fresh-identifier source: the variable *)
(* uuid counts the position identifiers issued so far.  The identifier and *)
(* timestamp of a trade_history record and the confidence, reasoning and   *)
(* parameters copied into a position are never read back by the engine and *)
(* are left out of the records.                                            *)
(***************************************************************************)
PaperTradingEngineInit ==
    [ portfolio_value |-> 100000,
      available_balance |-> 100000,
      positions |-> <<>>,
      trade_history |-> <<>>,
      daily_pnl |-> 0,
      total_pnl |-> 0,
      auto_paper_trade |-> TRUE,
      max_daily_trades |-> 5,
      trades_today |-> 0 ]

record_trade(p, position, action) ==
    [p EXCEPT !.trade_history = Append(@,
        [ position_id |-> position.id,
          symbol |-> position.symbol,
          strike |-> position.strike,
          type |-> position.type,
          action |-> action,
          quantity |-> position.quantity,
          price |-> IF action = "OPEN" THEN position.entry_price
                    ELSE Get(position, "exit_price", None),
          trade_type |-> position.trade_type,
          pnl |-> IF action = "CLOSE" THEN Get(position, "realized_pnl", 0) ELSE 0 ])]

TotalCost(signal) ==
    Get(signal, "price", 0) * Get(signal, "quantity", 1) * Get(signal, "lot_size", 75)

\* the keys open_position subscripts; a missing one raises KeyError
OpenKeys == {"symbol", "strike", "type", "action", "confidence", "reasoning"}

\* the keys close_position subscripts
CloseKeys == {"symbol", "strike", "type"}

\* which exit open_position takes
OpenOutcome(p, signal, trade_type) ==
    IF TotalCost(signal) > p.available_balance THEN "insufficient_balance"
    ELSE IF p.trades_today >= p.max_daily_trades /\ trade_type = "paper" THEN "daily_limit"
    ELSE IF ~(OpenKeys \subseteq DOMAIN signal) THEN "KeyError"
    ELSE "opened"

NewPosition(signal, trade_type, id) ==
    [ id |-> id,
      signal_id |-> Get(signal, "id", None),
      symbol |-> signal.symbol,
      strike |-> signal.strike,
      type |-> signal.type,
      action |-> signal.action,
      quantity |-> Get(signal, "quantity", 1),
      lot_size |-> Get(signal, "lot_size", 75),
      entry_price |-> Get(signal, "price", 0),
      current_price |-> Get(signal, "price", 0),
      trade_type |-> trade_type,
      status |-> "open",
      unrealized_pnl |-> 0,
      stop_loss |-> (Get(signal, "price", 0) * 9) \div 10,
      take_profit |-> (Get(signal, "price", 0) * 12) \div 10 ]

open_position(p, signal, trade_type, id) ==
    IF OpenOutcome(p, signal, trade_type) # "opened"
    THEN p
    ELSE LET position == NewPosition(signal, trade_type, id)
             p1 == [p EXCEPT !.available_balance = @ - TotalCost(signal),
                             !.positions = Append(@, position)]
             p2 == record_trade(p1, position, "OPEN")
         IN  IF trade_type = "paper"
             THEN [p2 EXCEPT !.trades_today = @ + 1]
             ELSE p2

OpenPositionsValue(positions) ==
    SumSeq([i \in 1..Len(positions) |->
               IF positions[i].status = "open"
               THEN positions[i].current_price * positions[i].quantity * positions[i].lot_size
               ELSE 0])

\* indexes of the open positions a close signal matches
\* the positions of a contract, open or closed
MatchingAnyStatus(p, signal) ==
    { i \in 1..Len(p.positions) :
         /\ p.positions[i].symbol = signal.symbol
         /\ p.positions[i].strike = signal.strike
         /\ p.positions[i].type = signal.type }

MatchingPositions(p, signal) ==
    { i \in 1..Len(p.positions) :
         /\ p.positions[i].symbol = signal.symbol
         /\ p.positions[i].strike = signal.strike
         /\ p.positions[i].type = signal.type
         /\ p.positions[i].status = "open" }

FirstOf(S) == CHOOSE i \in S : \A j \in S : i <= j

ClosePnl(position, exit_price) ==
    exit_price * position.quantity * position.lot_size
    - position.entry_price * position.quantity * position.lot_size

\* close_position crediting the balance with the P&L instead of the exit value
CloseCreditingPnl(p, signal) ==
    IF MatchingPositions(p, signal) = {}
    THEN p
    ELSE LET i == FirstOf(MatchingPositions(p, signal))
             position == p.positions[i]
             exit_price == Get(signal, "price", position.current_price)
             pnl == ClosePnl(position, exit_price)
             closed == [ exit_price |-> exit_price,
                         realized_pnl |-> pnl,
                         status |-> "closed" ] @@ position
             p1 == [p EXCEPT !.positions[i] = closed,
                             !.available_balance = @ + pnl,
                             !.daily_pnl = @ + pnl,
                             !.total_pnl = @ + pnl]
             p2 == [p1 EXCEPT !.portfolio_value =
                        p1.available_balance + OpenPositionsValue(p1.positions)]
         IN  record_trade(p2, closed, "CLOSE")

close_position(p, signal) ==
    IF MatchingPositions(p, signal) = {}
    THEN p
    ELSE LET i == FirstOf(MatchingPositions(p, signal))
             position == p.positions[i]
             exit_price == Get(signal, "price", position.current_price)
             exit_value == exit_price * position.quantity * position.lot_size
             pnl == ClosePnl(position, exit_price)
             closed == [ exit_price |-> exit_price,
                         realized_pnl |-> pnl,
                         status |-> "closed" ] @@ position
             p1 == [p EXCEPT !.positions[i] = closed,
                             !.available_balance = @ + exit_value,
                             !.daily_pnl = @ + pnl,
                             !.total_pnl = @ + pnl]
             p2 == [p1 EXCEPT !.portfolio_value =
                        p1.available_balance + OpenPositionsValue(p1.positions)]
         IN  record_trade(p2, closed, "CLOSE")

\* which exit execute_trade takes
ExecuteOutcome(p, signal, trade_type) ==
    IF "action" \notin DOMAIN signal THEN "KeyError"
    ELSE IF signal.action = "BUY" THEN OpenOutcome(p, signal, trade_type)
    ELSE IF signal.action = "SELL"
    THEN IF ~(CloseKeys \subseteq DOMAIN signal) THEN "KeyError"
         ELSE IF MatchingPositions(p, signal) = {} THEN "no_open_position"
         ELSE "closed"
    ELSE "invalid_action"

\* execute_trade counting a rejected paper entry as one of the day's trades
ExecuteCountingAttempts(p, signal, trade_type, id) ==
    IF ExecuteOutcome(p, signal, trade_type) = "opened"
    THEN open_position(p, signal, trade_type, id)
    ELSE IF ExecuteOutcome(p, signal, trade_type) = "closed"
    THEN close_position(p, signal)
    ELSE IF ExecuteOutcome(p, signal, trade_type) \in {"insufficient_balance", "daily_limit"}
            /\ trade_type = "paper"
    THEN [p EXCEPT !.trades_today = @ + 1]
    ELSE p

execute_trade(p, signal, trade_type, id) ==
    IF ExecuteOutcome(p, signal, trade_type) = "opened"
    THEN open_position(p, signal, trade_type, id)
    ELSE IF ExecuteOutcome(p, signal, trade_type) = "closed"
    THEN close_position(p, signal)
    ELSE p

PositionKey(position) == <<position.symbol, position.type, position.strike>>

\* the price loop of update_position_prices
UpdatedPosition(position, price_updates) ==
    IF position.status = "open" /\ PositionKey(position) \in DOMAIN price_updates
    THEN [position EXCEPT
            !.current_price = price_updates[PositionKey(position)],
            !.unrealized_pnl =
                price_updates[PositionKey(position)] * position.quantity * position.lot_size
                - position.entry_price * position.quantity * position.lot_size]
    ELSE position

\* exit_info entries, in position order
PositionsToClose(positions) ==
    LET breached == SelectSeq(positions, LAMBDA q :
                        q.status = "open"
                        /\ (q.current_price <= q.stop_loss \/ q.current_price >= q.take_profit))
    IN  [i \in 1..Len(breached) |->
            [ position |-> breached[i],
              reason |-> IF breached[i].current_price <= breached[i].stop_loss
                         THEN "stop_loss" ELSE "take_profit",
              exit_price |-> IF breached[i].current_price <= breached[i].stop_loss
                             THEN breached[i].stop_loss ELSE breached[i].take_profit ]]

auto_close_position(p, exit_info) ==
    close_position(p, [ symbol |-> exit_info.position.symbol,
                        strike |-> exit_info.position.strike,
                        type |-> exit_info.position.type,
                        price |-> exit_info.exit_price,
                        action |-> "SELL" ])

RECURSIVE ExecuteAutoExits(_, _)
ExecuteAutoExits(p, exits) ==
    IF exits = <<>> THEN p
    ELSE ExecuteAutoExits(auto_close_position(p, Head(exits)), Tail(exits))

check_auto_exits(p) == ExecuteAutoExits(p, PositionsToClose(p.positions))

update_position_prices(p, price_updates) ==
    LET p1 == [p EXCEPT !.positions =
                  [i \in 1..Len(p.positions) |-> UpdatedPosition(p.positions[i], price_updates)]]
        p2 == [p1 EXCEPT !.portfolio_value =
                  p1.available_balance + OpenPositionsValue(p1.positions)]
    IN  check_auto_exits(p2)

reset_daily_counters(p) == [p EXCEPT !.trades_today = 0, !.daily_pnl = 0]

(***************************************************************************)
(* LiveTradingEngine.  The broker is an external collaborator: whether it  *)
(* is authenticated and whether place_order succeeds are inputs.  A        *)
(* trade_history entry keeps the signal identifier of the executed order.  *)
(***************************************************************************)
LiveTradingEngineInit ==
    [ broker |-> [ connected |-> FALSE, authenticated |-> FALSE ],
      positions |-> <<>>, trade_history |-> <<>>, enabled |-> FALSE ]

BrokerAuthenticated(l) == l.broker.connected /\ l.broker.authenticated

enable_live_trading(l) ==
    IF ~BrokerAuthenticated(l) THEN l ELSE [l EXCEPT !.enabled = TRUE]

disable_live_trading(l) == [l EXCEPT !.enabled = FALSE]

\* which exit execute_live_trade takes
LiveOutcome(l, r, t, signal, broker_ok) ==
    IF ~l.enabled THEN "not_enabled"
    ELSE IF ~BrokerAuthenticated(l) THEN "not_authenticated"
    ELSE IF ~ValidateTradeValue(r, t, signal) THEN "rejected"
    ELSE IF ~({"symbol", "strike", "type", "action"} \subseteq DOMAIN signal) THEN "KeyError"
    ELSE IF broker_ok THEN "executed"
    ELSE "broker_failed"

execute_live_trade(l, r, t, signal, broker_ok) ==
    IF LiveOutcome(l, r, t, signal, broker_ok) = "executed"
    THEN [l EXCEPT !.trade_history = Append(@,
            [ signal_id |-> Get(signal, "id", None),
              symbol |-> signal.symbol,
              strike |-> signal.strike,
              type |-> signal.type,
              action |-> signal.action,
              quantity |-> Get(signal, "quantity", 1),
              price |-> Get(signal, "price", 0),
              trade_type |-> "live",
              status |-> "executed" ])]
    ELSE l

\* which exit LiveTradingEngine.close_position takes
LiveCloseOutcome(l, position, broker_ok) ==
    IF ~l.enabled THEN "not_enabled"
    ELSE IF ~BrokerAuthenticated(l) THEN "not_authenticated"
    ELSE IF "symbol" \notin DOMAIN position THEN "KeyError"
    ELSE IF broker_ok THEN "closed"
    ELSE "broker_failed"

\* order_params of LiveTradingEngine.close_position
LiveCloseOrder(position) ==
    [ symbol |-> position.symbol,
      strike |-> Get(position, "strike", None),
      option_type |-> Get(position, "type", None),
      action |-> IF Get(position, "quantity", 0) > 0 THEN "SELL" ELSE "BUY",
      quantity |-> Abs(Get(position, "quantity", 1)),
      order_type |-> "MARKET" ]

(***************************************************************************)
(* Observation variables.  ret is what the most recent call returned and   *)
(* printed: op, its argument, the clock the call read, the returned value, *)
(* the Python type of that value and the lines written to stdout.  hist    *)
(* records facts about the calls made so far; no operation reads it.       *)
(***************************************************************************)
Ret(op, arg, value, type, printed) ==
    [ op |-> op, arg |-> arg, at |-> now, value |-> value, type |-> type,
      printed |-> printed ]

\* the result of a call that does not read the clock
RetUntimed(op, arg, value, type, printed) ==
    [ op |-> op, arg |-> arg, at |-> None, value |-> value, type |-> type,
      printed |-> printed ]

RetInit ==
    [ op |-> None, arg |-> None, at |-> None, value |-> None, type |-> None,
      printed |-> <<>> ]

HistInit ==
    [ validated |-> {},         \* ids of the signals validate_trade has passed
      fresh |-> {},             \* id passed by the latest risk call, if it was validate_trade
      used |-> FALSE,           \* validate_trade or add_position has been called
      add_stale |-> FALSE,      \* add_position was called for a trade other than fresh
      orders |-> {},            \* the orders that reached execution
      learned |-> 0,            \* number of outcomes learn_from_outcome recorded
      constructed |-> 0,        \* number of times the engine was constructed again
      added |-> 0 ]             \* records add_learning_record has appended so far

\* stands for the id of an order that no signal stands behind
NoSignal == 0 - 1

SignalId(signal) == Get(signal, "id", NoSignal)

(***************************************************************************)
(* Inputs of the RiskManager calls.                                        *)
(***************************************************************************)
Quote(volume, open_interest, bid, ask, iv) ==
    [ volume |-> volume, open_interest |-> open_interest, bid |-> bid, ask |-> ask,
      iv |-> iv ]

RiskSignals ==
    { [ id |-> 1, symbol |-> "NIFTY", strike |-> 22000, type |-> "CE", action |-> "BUY",
        price |-> 100, quantity |-> 10 ] @@ Quote(2000, 6000, 99, 101, 20),
      [ id |-> 2, symbol |-> "NIFTY", strike |-> 22100, type |-> "CE", action |-> "BUY",
        price |-> 4000 ] @@ Quote(2000, 6000, 3990, 4010, 50),
      [ id |-> 3, symbol |-> "BANKNIFTY", strike |-> 48000, type |-> "PE", action |-> "BUY",
        price |-> 3000, quantity |-> 2 ] @@ Quote(500, 6000, 3000, 3000, 60),
      [ id |-> 4, symbol |-> "BANKNIFTY", strike |-> 48100, type |-> "PE", action |-> "BUY",
        price |-> 100 ] }

\* the trade_data a caller hands to add_position for a signal
TradeData(signal) ==
    [ id |-> signal.id, symbol |-> signal.symbol, strike |-> signal.strike,
      type |-> signal.type, quantity |-> Get(signal, "quantity", 1),
      entry_price |-> signal.price ]

TradeInputs == { TradeData(s) : s \in RiskSignals }

\* the signals of the caller that validates before it tracks
GateSignals == { s \in RiskSignals : s.id \in {1, 2, 3} }

SettingsInputs ==
    { [ enabled |-> FALSE ],
      [ max_positions_per_symbol |-> 1 ],
      [ max_total_positions |-> 2 ],
      [ max_portfolio_risk |-> 6000 ],
      [ risk_level |-> 3 ] }

(***************************************************************************)
(* Actions of the RiskManager interface.                                   *)
(***************************************************************************)
ValidateTradeCall(signal) ==
    /\ ret' = Ret("validate_trade", signal, ValidateTradeValue(risk, now, signal),
                  "bool", ValidateTradePrinted(risk, now, signal))
    /\ UNCHANGED <<learner, now, uuid, risk, paper, live, engine, disk>>

AddPositionCall(trade_data) ==
    /\ Len(risk.current_positions) < MaxTracked
    /\ risk' = add_position(risk, trade_data)
    /\ ret' = RetUntimed("add_position", trade_data.id, None, "NoneType", <<>>)
    /\ UNCHANGED <<learner, now, uuid, paper, live, engine, disk>>

RemovePosition(position_id) ==
    /\ risk' = remove_position(risk, position_id)
    /\ ret' = RetUntimed("remove_position", position_id, None, "NoneType", <<>>)
    /\ UNCHANGED <<learner, now, uuid, paper, live, engine, disk, hist>>

UpdateSettingsCall(new_settings) ==
    /\ risk' = update_settings(risk, new_settings)
    /\ ret' = RetUntimed("update_settings", None, None, "NoneType", <<>>)
    /\ UNCHANGED <<learner, now, uuid, paper, live, engine, disk>>

CalculatePositionSize(signal, available_capital) ==
    /\ ret' = RetUntimed("calculate_position_size",
                         [ signal |-> signal, available_capital |-> available_capital ],
                         calculate_position_size(risk, signal, available_capital),
                         "int", <<>>)
    /\ UNCHANGED <<learner, now, uuid, risk, paper, live, engine, disk, hist>>

\* the calls of a caller that is not observed
ValidateTradeFree(signal) == ValidateTradeCall(signal) /\ UNCHANGED hist

AddPosition(trade_data) == AddPositionCall(trade_data) /\ UNCHANGED hist

UpdateSettings(new_settings) == UpdateSettingsCall(new_settings) /\ UNCHANGED hist

\* validate_trade, with the passed signal recorded
ValidateTrade(signal) ==
    /\ ValidateTradeCall(signal)
    /\ hist' = [hist EXCEPT
          !.validated = IF ValidateTradeValue(risk, now, signal)
                        THEN @ \cup {SignalId(signal)} ELSE @,
          !.fresh = IF ValidateTradeValue(risk, now, signal)
                    THEN {SignalId(signal)} ELSE {},
          !.used = TRUE]

\* a caller that tracks a trade only after validate_trade has passed it
AddValidatedPosition(trade_data) ==
    /\ trade_data.id \in hist.validated
    /\ AddPositionCall(trade_data)
    /\ hist' = [hist EXCEPT
          !.add_stale = @ \/ trade_data.id \notin hist.fresh,
          !.fresh = {},
          !.used = TRUE]

\* a caller that sets the limits once, before it starts to trade
Configure(new_settings) ==
    /\ ~hist.used
    /\ risk = RiskManagerInit
    /\ UpdateSettingsCall(new_settings)
    /\ UNCHANGED hist

\* time passes between calls
Tick(t) ==
    /\ t # now
    /\ now' = t
    /\ UNCHANGED <<learner, uuid, risk, paper, live, engine, disk, ret, hist>>

(***************************************************************************)
(* AISignalEngine.  Sub-scores are integer tenths (0.9 is 9), delta is in  *)
(* hundredths and iv in percent.  A weight vector is a dict of integer     *)
(* numerators over one common denominator, so weights, confidences and     *)
(* their comparisons are exact rationals.  The fitted regressors are       *)
(* represented by the model_trained flag only.                             *)
(***************************************************************************)
RECURSIVE GCD(_, _)
GCD(a, b) == IF b = 0 THEN a ELSE GCD(b, a % b)

LCM(a, b) == (a \div GCD(a, b)) * b

\* the rational n / d in lowest terms
Reduced(n, d) == [ n |-> n \div GCD(Abs(n), d), d |-> d \div GCD(Abs(n), d) ]

RECURSIVE LCMSeq(_)
LCMSeq(s) == IF s = <<>> THEN 1 ELSE LCM(Head(s), LCMSeq(Tail(s)))

RECURSIVE GCDSeq(_)
GCDSeq(s) == IF s = <<>> THEN 0 ELSE GCD(Head(s), GCDSeq(Tail(s)))

\* the keys of parameter_weights and of param_performance, in dict order
ParamNames ==
    << "delta", "oi_change", "volume", "momentum", "iv", "spread", "liquidity" >>

ParamSet == { ParamNames[i] : i \in 1..Len(ParamNames) }

\* the keys of params in analyze_market_parameters, in dict order
ScoreNames ==
    << "delta_score", "oi_score", "volume_score", "momentum_score", "iv_score",
       "spread_score", "liquidity_score" >>

\* key.replace('_score', '')
StripScore ==
    [ delta_score |-> "delta", oi_score |-> "oi", volume_score |-> "volume",
      momentum_score |-> "momentum", iv_score |-> "iv", spread_score |-> "spread",
      liquidity_score |-> "liquidity" ]

\* f'{param_name}_score'
ScoreKey ==
    [ delta |-> "delta_score", oi_change |-> "oi_change_score",
      volume |-> "volume_score", momentum |-> "momentum_score", iv |-> "iv_score",
      spread |-> "spread_score", liquidity |-> "liquidity_score" ]

DefaultWeights ==
    [ num |-> [ delta |-> 25, oi_change |-> 20, volume |-> 15, momentum |-> 15,
                iv |-> 10, spread |-> 10, liquidity |-> 5 ],
      den |-> 100 ]

ConfidenceThresholdTenths == 6

HistoryCap == 1000

\* the float NaN of a cell that its row does not fill; every comparison
\* with it is False
NaN == 0 - 999999

\* pd.DataFrame(rows): the columns are the keys of all rows, and a row that
\* lacks a column holds NaN in it
DataFrame(rows) ==
    LET columns == UNION { DOMAIN rows[k] : k \in 1..Len(rows) }
    IN  [k \in 1..Len(rows) |->
            [c \in columns |-> IF c \in DOMAIN rows[k] THEN rows[k][c] ELSE NaN]]

analyze_delta(delta, option_type) ==
    IF delta = NaN THEN 2
    ELSE IF option_type = "CE"
    THEN IF delta > 70 THEN 9
         ELSE IF delta > 50 THEN 7
         ELSE IF delta > 30 THEN 5
         ELSE 2
    ELSE IF Abs(delta) > 70 THEN 9
         ELSE IF Abs(delta) > 50 THEN 7
         ELSE IF Abs(delta) > 30 THEN 5
         ELSE 2

analyze_oi_change(oi_change, total_oi) ==
    IF total_oi = 0 THEN 3
    ELSE IF Abs(oi_change) * 100 > 20 * total_oi THEN 9
    ELSE IF Abs(oi_change) * 100 > 10 * total_oi THEN 7
    ELSE IF Abs(oi_change) * 100 > 5 * total_oi THEN 5
    ELSE 3

analyze_volume(volume, oi) ==
    IF oi = 0 THEN 3
    ELSE IF volume * 10 > 5 * oi THEN 9
    ELSE IF volume * 10 > 3 * oi THEN 7
    ELSE IF volume * 10 > oi THEN 5
    ELSE 3

\* distance_to_strike compared with 0.02, 0 and -0.02, for underlying_price > 0
MomentumBucket(distance, underlying_price) ==
    IF distance * 100 > 2 * underlying_price THEN 8
    ELSE IF distance > 0 THEN 6
    ELSE IF distance * 100 > 0 - 2 * underlying_price THEN 4
    ELSE 2

analyze_momentum(ltp, underlying_price, strike, option_type) ==
    IF option_type = "CE"
    THEN MomentumBucket(underlying_price - strike, underlying_price)
    ELSE MomentumBucket(strike - underlying_price, underlying_price)

analyze_iv(iv) ==
    IF iv < 15 THEN 3
    ELSE IF iv < 25 THEN 7
    ELSE IF iv < 35 THEN 5
    ELSE 2

analyze_spread(bid, ask, ltp) ==
    IF ask <= bid \/ ltp = 0 THEN 1
    ELSE IF ltp = NaN THEN 2
    ELSE IF (ask - bid) * 100 < 2 * ltp THEN 9
    ELSE IF (ask - bid) * 100 < 5 * ltp THEN 7
    ELSE IF (ask - bid) * 100 < 10 * ltp THEN 5
    ELSE 2

analyze_liquidity(bid, ask) ==
    IF bid = 0 /\ ask = 0 THEN 1
    ELSE IF bid > 0 /\ ask > 0 THEN 8
    ELSE IF bid > 0 \/ ask > 0 THEN 5
    ELSE 2

\* the params dict of one option-chain row
RowParams(option, underlying_price) ==
    [ delta_score |-> analyze_delta(option.delta, option.type),
      oi_score |-> analyze_oi_change(Get(option, "oi_change", 0), Get(option, "oi", 0)),
      volume_score |-> analyze_volume(Get(option, "volume", 0), Get(option, "oi", 0)),
      momentum_score |-> analyze_momentum(option.ltp, underlying_price, option.strike,
                                          option.type),
      iv_score |-> analyze_iv(Get(option, "iv", 20)),
      spread_score |-> analyze_spread(Get(option, "bid", 0), Get(option, "ask", 0),
                                      option.ltp),
      liquidity_score |-> analyze_liquidity(Get(option, "bid", 0), Get(option, "ask", 0)) ]

\* sum(params[key] * weights[key.replace('_score', '')] for key in params
\*     if key.replace('_score', '') in weights), as a numerator over 10 * den
ConfidenceNum(params, weights) ==
    SumSeq([i \in 1..Len(ScoreNames) |->
               IF StripScore[ScoreNames[i]] \in DOMAIN weights.num
               THEN params[ScoreNames[i]] * weights.num[StripScore[ScoreNames[i]]]
               ELSE 0])

\* confidence compared with a bound given in tenths
ConfidenceGE(cnum, weights, tenths) == cnum >= tenths * weights.den
ConfidenceGT(cnum, weights, tenths) == cnum > tenths * weights.den

\* the columns analyze_market_parameters subscripts; a missing one raises KeyError
RequiredColumns == {"strike", "type", "delta", "ltp"}

\* generate_reasoning: the reasons in the order they are appended; the
\* returned string is their join, or one fixed sentence when there is none
generate_reasoning(params) ==
    LET reason(key, high, low) ==
            IF params[key] > 7 THEN <<high>>
            ELSE IF params[key] < 3 THEN <<low>>
            ELSE <<>>
        reasons ==
            reason("delta_score", "Strong Delta", "Weak Delta")
            \o reason("oi_score", "Significant OI buildup", "Limited OI activity")
            \o reason("volume_score", "High volume", "Low volume")
            \o reason("momentum_score", "Favorable price momentum",
                      "Unfavorable price momentum")
            \o reason("iv_score", "Optimal IV levels", "Suboptimal IV levels")
            \o reason("spread_score", "Tight bid-ask spread", "Wide spread")
    IN  IF reasons # <<>> THEN reasons ELSE <<"Mixed signals across parameters">>

\* analysis is a dict keyed by f"{option_type}_{strike}": a later row with the
\* key of an earlier one replaces its value and keeps its place
AnalysisEntry(option, underlying_price, weights) ==
    [ key |-> <<option.type, option.strike>>,
      parameters |-> RowParams(option, underlying_price),
      confidence |-> ConfidenceNum(RowParams(option, underlying_price), weights),
      reasoning |-> generate_reasoning(RowParams(option, underlying_price)),
      option_data |-> option ]

RECURSIVE DictPut(_, _)
DictPut(d, entry) ==
    IF d = <<>> THEN <<entry>>
    ELSE IF Head(d).key = entry.key THEN <<entry>> \o Tail(d)
    ELSE <<Head(d)>> \o DictPut(Tail(d), entry)

RECURSIVE AnalysisFrom(_, _, _, _)
AnalysisFrom(acc, rows, underlying_price, weights) ==
    IF rows = <<>> THEN acc
    ELSE AnalysisFrom(DictPut(acc, AnalysisEntry(Head(rows), underlying_price, weights)),
                      Tail(rows), underlying_price, weights)

analyze_market_parameters(option_data, underlying_price, weights) ==
    AnalysisFrom(<<>>, option_data, underlying_price, weights)

\* determine_action with the exit test placed before the buy test
SellBeforeBuy(parameters, cnum, weights) ==
    IF /\ \/ parameters.delta_score < 3
          \/ parameters.momentum_score < 3
          \/ parameters.iv_score < 2
       /\ ConfidenceGT(cnum, weights, 5)
    THEN "SELL"
    ELSE IF \/ /\ parameters.delta_score > 7
               /\ parameters.oi_score > 6
               /\ parameters.volume_score > 5
               /\ parameters.momentum_score > 6
            \/ /\ parameters.delta_score > 5
               /\ parameters.oi_score > 4
               /\ (parameters.volume_score > 4 \/ parameters.momentum_score > 5)
               /\ ConfidenceGT(cnum, weights, 7)
    THEN "BUY"
    ELSE "HOLD"

determine_action(parameters, cnum, weights) ==
    LET strong_buy_conditions ==
            /\ parameters.delta_score > 7
            /\ parameters.oi_score > 6
            /\ parameters.volume_score > 5
            /\ parameters.momentum_score > 6
        moderate_buy_conditions ==
            /\ parameters.delta_score > 5
            /\ parameters.oi_score > 4
            /\ (parameters.volume_score > 4 \/ parameters.momentum_score > 5)
        exit_conditions ==
            \/ parameters.delta_score < 3
            \/ parameters.momentum_score < 3
            \/ parameters.iv_score < 2
    IN  IF strong_buy_conditions \/ (moderate_buy_conditions /\ ConfidenceGT(cnum, weights, 7))
        THEN "BUY"
        ELSE IF exit_conditions /\ ConfidenceGT(cnum, weights, 5)
        THEN "SELL"
        ELSE "HOLD"

\* market_open <= now <= market_close and now.weekday() < 5, the two bounds
\* being now with hour and minute replaced and second set to 0
is_trading_time(t) ==
    LET secs == (t.hour * 60 + t.minute) * 60 + t.second
    IN  (9 * 60 + 15) * 60 <= secs /\ secs <= (15 * 60 + 30) * 60 /\ t.weekday < 5

\* the loop of generate_signals without its test of the confidence
EmitsAnyConfidence(data, weights) ==
    determine_action(data.parameters, data.confidence, weights) # "HOLD"

\* whether the loop of generate_signals emits a signal for an analysis entry
Emits(data, weights) ==
    /\ ConfidenceGE(data.confidence, weights, ConfidenceThresholdTenths)
    /\ determine_action(data.parameters, data.confidence, weights) # "HOLD"

\* the signal dict; confidence * 100 is the rational n / d
MakeSignal(symbol, data, underlying_price, weights, id) ==
    [ id |-> id,
      symbol |-> symbol,
      strike |-> data.option_data.strike,
      type |-> data.option_data.type,
      action |-> determine_action(data.parameters, data.confidence, weights),
      confidence |-> [ n |-> data.confidence * 10, d |-> weights.den ],
      reasoning |-> data.reasoning,
      price |-> data.option_data.ltp,
      parameters |-> data.parameters,
      underlying_price |-> underlying_price ]

\* the list signals, in analysis order; ids are issued from first_id on
EmittedSignals(symbol, analysis, underlying_price, weights, first_id) ==
    LET emitting == SelectSeq(analysis, LAMBDA data : Emits(data, weights))
    IN  [i \in 1..Len(emitting) |->
            MakeSignal(symbol, emitting[i], underlying_price, weights, first_id + i - 1)]

\* x['confidence'] of a before that of b
ConfLess(a, b) ==
    IF a.confidence.d = b.confidence.d
    THEN a.confidence.n < b.confidence.n
    ELSE a.confidence.n * b.confidence.d < b.confidence.n * a.confidence.d

\* an insertion that puts x before the entries of equal confidence
RECURSIVE InsertBeforeEqual(_, _)
InsertBeforeEqual(sorted, x) ==
    IF sorted = <<>> THEN <<x>>
    ELSE IF ~ConfLess(x, Head(sorted)) THEN <<x>> \o sorted
    ELSE <<Head(sorted)>> \o InsertBeforeEqual(Tail(sorted), x)

\* sorted(signals, key=lambda x: x['confidence'], reverse=True): stable
RECURSIVE InsertDesc(_, _)
InsertDesc(sorted, x) ==
    IF sorted = <<>> THEN <<x>>
    ELSE IF ConfLess(Head(sorted), x) THEN <<x>> \o sorted
    ELSE <<Head(sorted)>> \o InsertDesc(Tail(sorted), x)

RECURSIVE SortedDesc(_, _)
SortedDesc(acc, signals) ==
    IF signals = <<>> THEN acc
    ELSE SortedDesc(InsertDesc(acc, Head(signals)), Tail(signals))

\* the cut keeping the first 1000 entries instead of the last
ExtendHistoryKeepOldest(history, signals) ==
    LET all == history \o signals
    IN  IF Len(all) > HistoryCap
        THEN SubSeq(all, 1, HistoryCap)
        ELSE all

\* signals_history after extend and the cut to the last 1000
ExtendHistory(history, signals) ==
    LET all == history \o signals
    IN  IF Len(all) > HistoryCap
        THEN SubSeq(all, Len(all) - HistoryCap + 1, Len(all))
        ELSE all

\* which exit generate_signals takes
GenerateOutcome(option_chain, t) ==
    IF option_chain = <<>> THEN "empty_chain"
    ELSE IF ~(RequiredColumns \subseteq DOMAIN option_chain[1]) THEN "KeyError"
    ELSE IF ~is_trading_time(t) THEN "not_trading_time"
    ELSE "generated"

\* the list generate_signals returns when it returns
generate_signals(e, symbol, option_chain, underlying_price, t, first_id) ==
    IF GenerateOutcome(option_chain, t) = "generated"
    THEN SortedDesc(<<>>, EmittedSignals(symbol,
             analyze_market_parameters(option_chain, underlying_price, e.parameter_weights),
             underlying_price, e.parameter_weights, first_id))
    ELSE <<>>

\* the engine after generate_signals
GenerateEffect(e, symbol, option_chain, underlying_price, t, first_id) ==
    IF GenerateOutcome(option_chain, t) = "generated"
    THEN [e EXCEPT !.signals_history = ExtendHistory(@, EmittedSignals(symbol,
             analyze_market_parameters(option_chain, underlying_price, e.parameter_weights),
             underlying_price, e.parameter_weights, first_id))]
    ELSE e

\* self.learning_data[-100:]
LastRecords(log, n) ==
    IF Len(log) > n THEN SubSeq(log, Len(log) - n + 1, Len(log)) ELSE log

\* param_performance[param_name]: the records whose parameters hold the score key
ParamData(window, param_name) ==
    SelectSeq(window, LAMBDA record : ScoreKey[param_name] \in DOMAIN record.parameters)

\* high_score_pnl: the pnl of the entries with score > 0.6
HighScorePnl(data, param_name) ==
    LET high == SelectSeq(data, LAMBDA record : record.parameters[ScoreKey[param_name]] > 6)
    IN  [i \in 1..Len(high) |-> high[i].pnl]

\* max(0.05, min(0.35, avg_pnl / 1000 + 0.15)) with avg_pnl = np.mean(pnls)
ClampedWeight(pnls) ==
    LET total == SumSeq(pnls)
        k == Len(pnls)
    IN  IF total > 200 * k THEN Reduced(35, 100)
        ELSE IF total < 0 - 100 * k THEN Reduced(5, 100)
        ELSE Reduced(total + 150 * k, 1000 * k)

\* the value new_weights[param_name] gets in the second loop, as a rational
RawWeight(window, weights, param_name) ==
    IF ParamData(window, param_name) = <<>>
    THEN Reduced(weights.num[param_name], weights.den)
    ELSE IF HighScorePnl(ParamData(window, param_name), param_name) # <<>>
    THEN ClampedWeight(HighScorePnl(ParamData(window, param_name), param_name))
    ELSE Reduced(weights.num[param_name], weights.den)

\* whether the second loop adds the weight of param_name to total_weight
CountsInTotal(window, param_name) == ParamData(window, param_name) # <<>>

\* optimize_weights without its last loop: the clamped and kept weights are
\* stored as they are, not divided by their sum
UnnormalizedWeights(window, weights) ==
    LET raw == [p \in ParamSet |-> RawWeight(window, weights, p)]
        common == LCMSeq([i \in 1..Len(ParamNames) |-> raw[ParamNames[i]].d])
    IN  [ num |-> [p \in ParamSet |-> raw[p].n * (common \div raw[p].d)], den |-> common ]

\* new_weights[p] / total_weight for every p: numerators over the common
\* denominator of the raw weights, divided by the numerator of total_weight
NormalizedWeights(window, weights) ==
    LET raw == [p \in ParamSet |-> RawWeight(window, weights, p)]
        common == LCMSeq([i \in 1..Len(ParamNames) |-> raw[ParamNames[i]].d])
        scaled == [p \in ParamSet |-> raw[p].n * (common \div raw[p].d)]
        total_weight == SumSeq([i \in 1..Len(ParamNames) |->
                                   IF CountsInTotal(window, ParamNames[i])
                                   THEN scaled[ParamNames[i]] ELSE 0])
        g == GCD(GCDSeq([i \in 1..Len(ParamNames) |-> scaled[ParamNames[i]]]), total_weight)
    IN  IF total_weight = 0
        THEN weights        \* ZeroDivisionError, caught: the weights are kept
        ELSE [ num |-> [p \in ParamSet |-> scaled[p] \div g], den |-> total_weight \div g ]

\* optimize_weights without its minimum of 50 records
OptimizeAnyLog(e) ==
    [e EXCEPT !.parameter_weights =
        NormalizedWeights(LastRecords(e.learning_data, 100), e.parameter_weights)]

optimize_weights(e) ==
    IF Len(e.learning_data) < 50
    THEN e
    ELSE [e EXCEPT !.parameter_weights =
             NormalizedWeights(LastRecords(e.learning_data, 100), e.parameter_weights)]

train_model(e) ==
    IF Len(e.learning_data) < 20 THEN e ELSE [e EXCEPT !.model_trained = TRUE]

\* next((s for s in signals_history if s['id'] == signal_id), None): the
\* signals with that id, in history order; <<>> stands for None
FindSignal(history, signal_id) == SelectSeq(history, LAMBDA sig : sig.id = signal_id)

LearningRecord(signal, signal_id, actual_outcome, pnl) ==
    [ signal_id |-> signal_id,
      parameters |-> signal.parameters,
      predicted_confidence |-> signal.confidence,
      actual_outcome |-> actual_outcome,
      pnl |-> pnl,
      symbol |-> signal.symbol,
      action |-> signal.action ]

\* learn_from_outcome falling back to the oldest signal of the history when
\* the id is not found
LearnFromAnySignal(e, signal_id, actual_outcome, pnl) ==
    LET found == IF FindSignal(e.signals_history, signal_id) = <<>>
                 THEN e.signals_history
                 ELSE FindSignal(e.signals_history, signal_id)
    IN  IF found = <<>>
        THEN e
        ELSE LET e1 == [e EXCEPT !.learning_data = Append(@,
                           LearningRecord(Head(found), signal_id, actual_outcome, pnl))]
             IN  IF Len(e1.learning_data) % 30 = 0
                 THEN optimize_weights(train_model(e1))
                 ELSE e1

\* the engine after learn_from_outcome
learn_from_outcome(e, signal_id, actual_outcome, pnl) ==
    IF FindSignal(e.signals_history, signal_id) = <<>>
    THEN e
    ELSE LET e1 == [e EXCEPT !.learning_data = Append(@,
                       LearningRecord(Head(FindSignal(e.signals_history, signal_id)),
                                      signal_id, actual_outcome, pnl))]
         IN  IF Len(e1.learning_data) % 30 = 0
             THEN optimize_weights(train_model(e1))
             ELSE e1

\* a file of the data directory: absent, or present with its JSON content
Missing == [ exists |-> FALSE, content |-> <<>> ]

File(content) == [ exists |-> TRUE, content |-> content ]

\* a file that is present but is not JSON: json.load raises on it
Corrupt == [ exists |-> TRUE, content |-> <<>>, error |-> "JSONDecodeError" ]

\* a file that is present but cannot be opened for reading
Unreadable == [ exists |-> TRUE, content |-> <<>>, error |-> "PermissionError" ]

\* how the open/json.load of load_learning_data ends: the file is loaded, or
\* an exception is raised
LoadOutcome(file) ==
    IF ~ file.exists THEN "FileNotFoundError"
    ELSE IF "error" \in DOMAIN file THEN file.error
    ELSE "loaded"

\* how the constructor ends: load_learning_data catches FileNotFoundError and
\* nothing else
ConstructOutcome(file) ==
    IF LoadOutcome(file) \in { "loaded", "FileNotFoundError" }
    THEN "AISignalEngine"
    ELSE LoadOutcome(file)

\* the engine after load_learning_data has read a file that exists
load_learning_data(e, file) ==
    LET e1 == [e EXCEPT !.learning_data = file]
    IN  IF Len(file) > 20 THEN optimize_weights(train_model(e1)) ELSE e1

AISignalEngineFields ==
    [ signals_history |-> <<>>,
      model_trained |-> FALSE,
      learning_data |-> <<>>,
      parameter_weights |-> DefaultWeights ]

\* AISignalEngine(): the engine constructed over the files on disk
AISignalEngineInit(files) ==
    IF ~files.learning_data.exists
    THEN AISignalEngineFields
    ELSE load_learning_data(AISignalEngineFields, files.learning_data.content)

(***************************************************************************)
(* Inputs of the trading engines.                                          *)
(***************************************************************************)
TradeSignals ==
    { [ id |-> 11, symbol |-> "NIFTY", strike |-> 22000, type |-> "CE", action |-> "BUY",
        confidence |-> 68, reasoning |-> "Strong delta", price |-> 250 ],
      [ id |-> 12, symbol |-> "NIFTY", strike |-> 22000, type |-> "CE", action |-> "SELL",
        confidence |-> 68, reasoning |-> "Weak momentum", price |-> 40 ],
      [ id |-> 13, symbol |-> "BANKNIFTY", strike |-> 48000, type |-> "PE", action |-> "BUY",
        confidence |-> 64, reasoning |-> "Strong delta", price |-> 100, quantity |-> 2,
        lot_size |-> 15 ]
        @@ Quote(2000, 6000, 99, 101, 20),
      [ id |-> 14, symbol |-> "BANKNIFTY", strike |-> 48000, type |-> "PE", action |-> "SELL",
        confidence |-> 64 ],
      [ id |-> 15, symbol |-> "NIFTY", strike |-> 22000, type |-> "CE", action |-> "HOLD",
        confidence |-> 50, reasoning |-> "Mixed signals", price |-> 250 ],
      [ id |-> 16, symbol |-> "NIFTY", strike |-> 22000, type |-> "CE", action |-> "BUY",
        confidence |-> 68, reasoning |-> "Strong delta", price |-> 2000 ] }

TradeTypes == {"paper", "live"}

PriceUpdates ==
    { (<<"NIFTY", "CE", 22000>> :> 200),
      (<<"NIFTY", "CE", 22000>> :> 300) @@ (<<"BANKNIFTY", "PE", 48000>> :> 95) }

\* the signals the application validates for live trading
LiveSignals == { s \in TradeSignals : s.id \in {11, 13} }

TradeClock == { At(0, 3, 0, 0), At(0, 12, 0, 0) }

\* positions as the broker reports them
BrokerPositions ==
    { [ symbol |-> "NIFTY", strike |-> 22000, type |-> "CE", quantity |-> 50 ],
      [ symbol |-> "BANKNIFTY", strike |-> 48000, type |-> "PE", quantity |-> 0 - 15 ] }

Order(venue, signal_id) ==
    [ venue |-> venue, signal_id |-> signal_id, validated |-> signal_id \in hist.validated ]

(***************************************************************************)
(* Actions of the trading engines.                                         *)
(***************************************************************************)
ExecuteTrade(signal, trade_type) ==
    /\ ExecuteOutcome(paper, signal, trade_type) = "opened" => uuid < MaxOpened
    /\ paper' = execute_trade(paper, signal, trade_type, uuid + 1)
    /\ uuid' = IF ExecuteOutcome(paper, signal, trade_type) = "opened" THEN uuid + 1 ELSE uuid
    /\ ret' = RetUntimed("execute_trade", SignalId(signal),
                  [ success |-> ExecuteOutcome(paper, signal, trade_type)
                                    \in {"opened", "closed"},
                    outcome |-> ExecuteOutcome(paper, signal, trade_type) ],
                  "dict", <<>>)
    /\ hist' = IF ExecuteOutcome(paper, signal, trade_type) = "opened"
               THEN [hist EXCEPT !.orders = @ \cup {Order("paper", SignalId(signal))}]
               ELSE hist
    /\ UNCHANGED <<learner, now, risk, live, engine, disk>>

UpdatePositionPrices(price_updates) ==
    /\ paper' = update_position_prices(paper, price_updates)
    /\ ret' = RetUntimed("update_position_prices", None, None, "NoneType", <<>>)
    /\ UNCHANGED <<learner, now, uuid, risk, live, engine, disk, hist>>

ResetDailyCounters ==
    /\ paper' = reset_daily_counters(paper)
    /\ ret' = RetUntimed("reset_daily_counters", None, None, "NoneType", <<>>)
    /\ UNCHANGED <<learner, now, uuid, risk, live, engine, disk, hist>>

SetBroker(authenticated) ==
    /\ live' = [live EXCEPT !.broker = [ connected |-> TRUE,
                                         authenticated |-> authenticated ]]
    /\ ret' = RetUntimed("set_broker", None, None, "NoneType", <<>>)
    /\ UNCHANGED <<learner, now, uuid, risk, paper, engine, disk, hist>>

EnableLiveTrading ==
    /\ live' = enable_live_trading(live)
    /\ ret' = RetUntimed("enable_live_trading", None, [ success |-> BrokerAuthenticated(live) ],
                  "dict", <<>>)
    /\ UNCHANGED <<learner, now, uuid, risk, paper, engine, disk, hist>>

DisableLiveTrading ==
    /\ live' = disable_live_trading(live)
    /\ ret' = RetUntimed("disable_live_trading", None, [ success |-> TRUE ], "dict", <<>>)
    /\ UNCHANGED <<learner, now, uuid, risk, paper, engine, disk, hist>>

ExecuteLiveTrade(signal, broker_ok) ==
    /\ Len(live.trade_history) < MaxLiveTrades
    /\ live' = execute_live_trade(live, risk, now, signal, broker_ok)
    /\ ret' = Ret("execute_live_trade", SignalId(signal),
                  [ success |-> LiveOutcome(live, risk, now, signal, broker_ok) = "executed",
                    outcome |-> LiveOutcome(live, risk, now, signal, broker_ok) ],
                  "dict",
                  IF LiveOutcome(live, risk, now, signal, broker_ok)
                         \in {"not_enabled", "not_authenticated"}
                  THEN <<>> ELSE ValidateTradePrinted(risk, now, signal))
    /\ hist' = [hist EXCEPT
          !.validated =
              IF LiveOutcome(live, risk, now, signal, broker_ok)
                     \in {"KeyError", "executed", "broker_failed"}
              THEN @ \cup {SignalId(signal)} ELSE @,
          !.orders =
              IF LiveOutcome(live, risk, now, signal, broker_ok) \in {"executed", "broker_failed"}
              THEN @ \cup {[ venue |-> "live", signal_id |-> SignalId(signal),
                             validated |-> TRUE ]}
              ELSE @]
    /\ UNCHANGED <<learner, now, uuid, risk, paper, engine, disk>>

LiveClosePosition(position, broker_ok) ==
    /\ ret' = RetUntimed("live_close_position", None,
                  [ success |-> LiveCloseOutcome(live, position, broker_ok) = "closed",
                    outcome |-> LiveCloseOutcome(live, position, broker_ok) ],
                  "dict", <<>>)
    /\ hist' = IF LiveCloseOutcome(live, position, broker_ok) \in {"closed", "broker_failed"}
               THEN [hist EXCEPT !.orders = @ \cup {[ venue |-> "live_close", signal_id |-> NoSignal,
                                                      validated |-> FALSE ]}]
               ELSE hist
    /\ UNCHANGED <<learner, now, uuid, risk, paper, live, engine, disk>>

(***************************************************************************)
(* Inputs of the signal engine.                                            *)
(***************************************************************************)
Row(strike, type, ltp, bid, ask, volume, oi, oi_change, iv, delta) ==
    [ strike |-> strike, type |-> type, ltp |-> ltp, bid |-> bid, ask |-> ask,
      volume |-> volume, oi |-> oi, oi_change |-> oi_change, iv |-> iv, delta |-> delta ]

\* spot prices of the underlying
UnderlyingPrices == {22000}

RowStrongBuy == Row(21500, "CE", 100, 99, 100, 6000, 10000, 2500, 20, 75)
RowDeadPut == Row(21500, "PE", 50, 0, 0, 0, 0, 0, 40, 0 - 20)
RowBuyWide == Row(21000, "CE", 200, 194, 200, 6000, 10000, 2500, 30, 75)
RowFading == Row(22500, "CE", 100, 99, 100, 6000, 10000, 100, 20, 75)
RowQuietOI == Row(21400, "CE", 100, 99, 100, 6000, 10000, 100, 20, 75)
RowNoDelta == [ strike |-> 21500, type |-> "CE", ltp |-> 100 ]
RowStrongNear == Row(21400, "CE", 100, 99, 100, 6000, 10000, 2500, 20, 75)

\* rows of a list of dicts in which one dict lacks a key
RowWithoutDelta ==
    [ strike |-> 21400, type |-> "CE", ltp |-> 100, bid |-> 99, ask |-> 100,
      volume |-> 6000, oi |-> 10000, oi_change |-> 2500, iv |-> 20 ]
RowWithoutLtp ==
    [ strike |-> 21000, type |-> "CE", bid |-> 99, ask |-> 100,
      volume |-> 6000, oi |-> 10000, oi_change |-> 2500, iv |-> 20, delta |-> 75 ]

\* chains with several emitting rows: the stronger row last; two rows of
\* equal scores; a contract that appears in two rows; rows that lack a
\* required field next to a complete row
ScanChains ==
    { <<RowBuyWide, RowStrongBuy, RowStrongNear>>,
      DataFrame(<<RowWithoutDelta, RowStrongBuy, RowWithoutLtp>>),
      <<RowQuietOI, RowStrongBuy, RowStrongNear>>,
      <<RowStrongBuy, RowDeadPut>>,
      <<>> }

Chains ==
    { <<RowStrongBuy, RowDeadPut>>,
      <<RowBuyWide, RowQuietOI, RowFading>>,
      <<>>,
      <<RowNoDelta>> }

\* a record written to data/learning_data.json by an earlier run
PastRecord(option, pnl) ==
    [ signal_id |-> 0,
      parameters |-> RowParams(option, 22000),
      predicted_confidence |->
          [ n |-> ConfidenceNum(RowParams(option, 22000), DefaultWeights) * 10,
            d |-> DefaultWeights.den ],
      actual_outcome |-> IF pnl > 0 THEN "profit" ELSE "loss",
      pnl |-> pnl,
      symbol |-> "NIFTY",
      action |-> "BUY" ]

\* log lengths: enough to train (21), just short of optimizing (49), one
\* record short of the next optimization (59)

MakeLog(n, a, b) == [i \in 1..n |-> IF i % 2 = 1 THEN a ELSE b]

LogKinds ==
    { <<PastRecord(RowStrongBuy, 500), PastRecord(RowStrongBuy, 500)>>,
      <<PastRecord(RowStrongBuy, 500), PastRecord(RowStrongBuy, 0 - 500)>>,
      <<PastRecord(RowStrongBuy, 0 - 500), PastRecord(RowBuyWide, 100)>> }

PersistedLogs ==
    { Missing,
      File(MakeLog(21, PastRecord(RowStrongBuy, 500), PastRecord(RowBuyWide, 100))),
      File(MakeLog(49, PastRecord(RowStrongBuy, 500), PastRecord(RowBuyWide, 100))) }
    \cup { File(MakeLog(59, k[1], k[2])) : k \in LogKinds }

SignalClock == { At(0, 12, 0, 0), At(0, 15, 30, 30), At(5, 12, 0, 0) }

OutcomePnls == {500, 0 - 300}

\* the id of the first signal issued, and an id generate_signals never issued
LearnIds == {1, 99}

(***************************************************************************)
(* Actions of the signal engine.                                           *)
(***************************************************************************)
\* one uuid4 is drawn for each signal emitted
GenerateSignalsCall(symbol, option_chain, underlying_price) ==
    /\ engine' = GenerateEffect(engine, symbol, option_chain, underlying_price, now, uuid + 1)
    /\ uuid' = uuid + IF GenerateOutcome(option_chain, now) = "generated"
                      THEN Len(generate_signals(engine, symbol, option_chain,
                                                underlying_price, now, uuid + 1))
                      ELSE 0
    /\ ret' = Ret("generate_signals", option_chain,
                  generate_signals(engine, symbol, option_chain, underlying_price, now, uuid + 1),
                  IF GenerateOutcome(option_chain, now) = "KeyError" THEN "KeyError" ELSE "list",
                  <<>>)
    /\ UNCHANGED <<learner, now, risk, paper, live, disk, hist>>

GenerateSignals(symbol, option_chain, underlying_price) ==
    /\ Len(engine.signals_history) < MaxSignals
    /\ GenerateSignalsCall(symbol, option_chain, underlying_price)

\* generate_signals of an engine that has been scanning for a long time
GenerateSignalsLate(symbol, option_chain, underlying_price) ==
    /\ uuid <= HistoryCap + MaxSignals
    /\ GenerateSignalsCall(symbol, option_chain, underlying_price)

LearnFromOutcomeCall(signal_id, actual_outcome, pnl) ==
    /\ engine' = learn_from_outcome(engine, signal_id, actual_outcome, pnl)
    /\ disk' = IF FindSignal(engine.signals_history, signal_id) = <<>>
               THEN disk
               ELSE [disk EXCEPT !.learning_data = File(engine'.learning_data)]
    /\ ret' = RetUntimed("learn_from_outcome", <<signal_id, actual_outcome, pnl>>, None,
                         "NoneType", <<>>)
    /\ hist' = IF FindSignal(engine.signals_history, signal_id) = <<>>
               THEN hist
               ELSE [hist EXCEPT !.learned = @ + 1]
    /\ UNCHANGED <<learner, now, uuid, risk, paper, live>>

LearnFromOutcome(signal_id, actual_outcome, pnl) ==
    /\ hist.learned < MaxLearn
    /\ LearnFromOutcomeCall(signal_id, actual_outcome, pnl)

\* a caller that may report the outcome of a signal more than once
ReportOutcome(signal_id, actual_outcome, pnl) ==
    /\ hist.learned < MaxOutcomes
    /\ LearnFromOutcomeCall(signal_id, actual_outcome, pnl)

\* the process is started again: AISignalEngine() over the files on disk
ConstructEngine ==
    /\ hist.constructed < MaxConstructed
    /\ engine' = IF ConstructOutcome(disk.learning_data) = "AISignalEngine"
                  THEN AISignalEngineInit(disk)
                  ELSE engine
    /\ ret' = RetUntimed("AISignalEngine", LoadOutcome(disk.learning_data), None,
                         ConstructOutcome(disk.learning_data), <<>>)
    /\ hist' = [hist EXCEPT !.constructed = @ + 1]
    /\ UNCHANGED <<learner, now, uuid, risk, paper, live, disk>>

(***************************************************************************)
(* Specifications.  Spec: any caller of the RiskManager interface.         *)
(* SpecGate: a caller that configures the limits first and tracks a trade  *)
(* only after validate_trade has passed it.  SpecTrade: the calls the      *)
(* application makes on the paper engine and the risk manager.  SpecLive:  *)
(* its calls on the live engine.  SpecSignal: the signal engine over       *)
(* persisted learning data.                                                *)
(***************************************************************************)
(***************************************************************************)
(* AILearningSystem (src/core/ai_learn.py): its learning log, the file it    *)
(* saves the log to, and the trainings it has run.                           *)
(***************************************************************************)
AILearningSystemFields ==
    [ learning_data |-> <<>>,
      learning_curve |-> <<>>,
      models_trained |-> FALSE,
      min_samples_for_training |-> 50,
      ai_learning_data_json |-> Missing ]

\* the log is cut to its last LearningCap records
LearningCap == 1000

\* add_learning_record retrains when the log length is a multiple of this
RetrainEvery == 20

\* train_models: with fewer than min_samples_for_training records it reports
\* insufficient data; otherwise it fits the models and extends learning_curve
train_models(l) ==
    IF Len(l.learning_data) < l.min_samples_for_training
    THEN l
    ELSE [l EXCEPT !.learning_curve = Append(@, [ samples |-> Len(l.learning_data) ]),
                   !.models_trained = TRUE]

\* the constructor over the records of data/ai_learning_data.json (<<>> when
\* the file is absent)
AILearningSystemInit(records) ==
    LET l == [AILearningSystemFields EXCEPT
                 !.learning_data = records,
                 !.ai_learning_data_json = IF records = <<>> THEN Missing ELSE File(records)]
    IN  IF Len(records) >= l.min_samples_for_training THEN train_models(l) ELSE l

\* the record add_learning_record builds; the constant features are left out
AIRecord(signal_data, outcome_data) ==
    [ signal_id |-> Get(signal_data, "id", None),
      symbol |-> Get(signal_data, "symbol", None),
      strike |-> Get(signal_data, "strike", None),
      option_type |-> Get(signal_data, "type", None),
      action |-> Get(signal_data, "action", None),
      actual_pnl |-> Get(outcome_data, "pnl", 0),
      was_profitable |-> Get(outcome_data, "pnl", 0) > 0,
      exit_reason |-> Get(outcome_data, "exit_reason", "manual") ]

\* underlying_price / signal_data.get('strike', 1) raises ZeroDivisionError
\* for a strike of 0; the handler prints the error and returns False
AddOutcome(signal_data) ==
    IF Get(signal_data, "strike", 1) = 0 THEN "ZeroDivisionError" ELSE "added"

add_learning_record(l, signal_data, outcome_data) ==
    IF AddOutcome(signal_data) # "added"
    THEN l
    ELSE LET l1 == [l EXCEPT !.learning_data = Append(@, AIRecord(signal_data, outcome_data))]
             l2 == [l1 EXCEPT !.learning_data = LastRecords(@, LearningCap)]
             l3 == [l2 EXCEPT !.ai_learning_data_json = File(l2.learning_data)]
         IN  IF Len(l3.learning_data) % RetrainEvery = 0 THEN train_models(l3) ELSE l3

InitObjects ==
    /\ now = At(0, 12, 0, 0)
    /\ uuid = 0
    /\ risk = RiskManagerInit
    /\ paper = PaperTradingEngineInit
    /\ live = LiveTradingEngineInit
    /\ ret = RetInit
    /\ hist = HistInit
    /\ learner = AILearningSystemInit(<<>>)

Init ==
    /\ InitObjects
    /\ disk = [ learning_data |-> Missing ]
    /\ engine = AISignalEngineInit(disk)

Next ==
    \/ \E signal \in RiskSignals : ValidateTradeFree(signal)
    \/ \E trade_data \in TradeInputs : AddPosition(trade_data)
    \/ \E signal \in RiskSignals : RemovePosition(signal.id)
    \/ \E new_settings \in SettingsInputs : UpdateSettings(new_settings)
    \/ \E t \in ClockInputs : Tick(t)

Spec == Init /\ [][Next]_vars

NextGate ==
    \/ \E new_settings \in SettingsInputs : Configure(new_settings)
    \/ \E signal \in GateSignals : ValidateTrade(signal)
    \/ \E signal \in GateSignals : AddValidatedPosition(TradeData(signal))
    \/ \E signal \in GateSignals : RemovePosition(signal.id)
    \/ \E t \in ClockInputs : Tick(t)

SpecGate == Init /\ [][NextGate]_vars

NextTrade ==
    \/ \E signal \in LiveSignals : ValidateTrade(signal)
    \/ \E signal \in TradeSignals, trade_type \in TradeTypes : ExecuteTrade(signal, trade_type)
    \/ \E price_updates \in PriceUpdates : UpdatePositionPrices(price_updates)
    \/ ResetDailyCounters
    \/ \E t \in TradeClock : Tick(t)

SpecTrade == Init /\ [][NextTrade]_vars

NextLive ==
    \/ \E signal \in LiveSignals : ValidateTrade(signal)
    \/ \E authenticated \in BOOLEAN : SetBroker(authenticated)
    \/ EnableLiveTrading
    \/ DisableLiveTrading
    \/ \E signal \in LiveSignals, broker_ok \in BOOLEAN : ExecuteLiveTrade(signal, broker_ok)
    \/ \E position \in BrokerPositions, broker_ok \in BOOLEAN :
           LiveClosePosition(position, broker_ok)
    \/ \E t \in TradeClock : Tick(t)

SpecLive == Init /\ [][NextLive]_vars

InitSignal ==
    /\ InitObjects
    /\ \E file \in PersistedLogs : disk = [ learning_data |-> file ]
    /\ engine = AISignalEngineInit(disk)

NextSignal ==
    \/ \E option_chain \in Chains, underlying_price \in UnderlyingPrices :
           GenerateSignals("NIFTY", option_chain, underlying_price)
    \/ \E signal_id \in LearnIds, pnl \in OutcomePnls :
           LearnFromOutcome(signal_id, IF pnl > 0 THEN "profit" ELSE "loss", pnl)
    \/ ConstructEngine
    \/ \E t \in SignalClock : Tick(t)

SpecSignal == InitSignal /\ [][NextSignal]_vars

\* Scans of chains with several emitting rows, under every persisted log.
NextScan ==
    \/ \E option_chain \in ScanChains, underlying_price \in UnderlyingPrices :
           GenerateSignals("NIFTY", option_chain, underlying_price)
    \/ \E t \in SignalClock : Tick(t)

SpecScan == InitSignal /\ [][NextScan]_vars

\* The signal engine after many scans: signals_history already holds the
\* signals 1..n that earlier calls emitted, n just below or at the cap.
PrefilledLens == {998, 1000}

PrefilledHistory(n) ==
    [i \in 1..n |->
        MakeSignal("NIFTY", AnalysisEntry(RowStrongBuy, 22000, DefaultWeights), 22000,
                   DefaultWeights, i)]

InitHistory ==
    /\ now = At(0, 12, 0, 0)
    /\ \E n \in PrefilledLens :
           /\ uuid = n
           /\ engine = [AISignalEngineFields EXCEPT !.signals_history = PrefilledHistory(n)]
    /\ risk = RiskManagerInit
    /\ paper = PaperTradingEngineInit
    /\ live = LiveTradingEngineInit
    /\ disk = [ learning_data |-> Missing ]
    /\ ret = RetInit
    /\ hist = HistInit
    /\ learner = AILearningSystemInit(<<>>)

NextHistory ==
    \/ \E option_chain \in ScanChains, underlying_price \in UnderlyingPrices :
           GenerateSignalsLate("NIFTY", option_chain, underlying_price)
    \/ \E signal_id \in LearnIds : LearnFromOutcome(signal_id, "profit", 500)
    \/ \E t \in TradeClock : Tick(t)

SpecHistory == InitHistory /\ [][NextHistory]_vars

\* Position sizing under the settings a caller may choose.
SizingSignals ==
    { [ symbol |-> "NIFTY", price |-> 50, lot_size |-> 75 ],
      [ symbol |-> "NIFTY", price |-> 10 ],
      [ symbol |-> "NIFTY", price |-> 0, lot_size |-> 75 ],
      [ symbol |-> "NIFTY", lot_size |-> 15 ],
      [ symbol |-> "BANKNIFTY", price |-> 7, lot_size |-> 15 ] }

Capitals == { 100000, 1000000, 20000, 0, 0 - 500 }

SizingSettings ==
    { [ position_size_percent |-> 5 ],
      [ max_loss_per_trade |-> 1000 ],
      [ max_loss_per_trade |-> 100000 ],
      [ position_size_percent |-> 2, max_loss_per_trade |-> 5000 ] }

NextSizing ==
    \/ \E new_settings \in SizingSettings : UpdateSettings(new_settings)
    \/ \E signal \in SizingSignals, available_capital \in Capitals :
           CalculatePositionSize(signal, available_capital)

SpecSizing == Init /\ [][NextSizing]_vars

\* The paper engine alone, under any sequence of its calls.
NextPaper ==
    \/ \E signal \in TradeSignals, trade_type \in TradeTypes : ExecuteTrade(signal, trade_type)
    \/ \E price_updates \in PriceUpdates : UpdatePositionPrices(price_updates)
    \/ ResetDailyCounters

SpecPaper == Init /\ [][NextPaper]_vars

\* The signal engine with a caller that reports outcomes repeatedly, over a
\* log that is two records short of the next training round.
LearnLogs ==
    { Missing,
      File(MakeLog(58, PastRecord(RowStrongBuy, 500), PastRecord(RowBuyWide, 100))),
      File(MakeLog(29, PastRecord(RowStrongBuy, 500), PastRecord(RowStrongBuy, 0 - 500))),
      File(MakeLog(58, PastRecord(RowStrongBuy, 500), PastRecord(RowStrongBuy, 0 - 500))) }

InitLearn ==
    /\ InitObjects
    /\ \E file \in LearnLogs : disk = [ learning_data |-> file ]
    /\ engine = AISignalEngineInit(disk)

NextLearn ==
    \/ \E option_chain \in Chains, underlying_price \in UnderlyingPrices :
           GenerateSignals("NIFTY", option_chain, underlying_price)
    \/ \E signal_id \in LearnIds, pnl \in OutcomePnls :
           ReportOutcome(signal_id, IF pnl > 0 THEN "profit" ELSE "loss", pnl)
    \/ \E t \in SignalClock : Tick(t)

SpecLearn == InitLearn /\ [][NextLearn]_vars

\* The application's pipeline: the risk settings are chosen before anything
\* else, signals come from generate_signals, and what is validated, executed
\* and sold is a signal of signals_history.
FlowSettings == { [ stop_loss_percent |-> 5, take_profit_percent |-> 10 ] }

FlowPrices ==
    { (<<"NIFTY", "CE", 21500>> :> 85) @@ (<<"NIFTY", "CE", 21000>> :> 170),
      (<<"NIFTY", "CE", 21500>> :> 105) @@ (<<"NIFTY", "CE", 21000>> :> 210),
      (<<"NIFTY", "CE", 21500>> :> 125) @@ (<<"NIFTY", "CE", 21000>> :> 250) }

ExitPrices == {95, 110}

\* the SELL signal that closes the position a signal opened
ExitSignal(signal, price) ==
    [ symbol |-> signal.symbol, strike |-> signal.strike, type |-> signal.type,
      action |-> "SELL", price |-> price ]

IssuedSignals == { engine.signals_history[i] : i \in 1..Len(engine.signals_history) }

NextFlow ==
    \/ \E new_settings \in FlowSettings : uuid = 0 /\ Configure(new_settings)
    \/ \E option_chain \in Chains, underlying_price \in UnderlyingPrices :
           GenerateSignals("NIFTY", option_chain, underlying_price)
    \/ \E signal \in IssuedSignals : ValidateTrade(signal)
    \/ \E signal \in IssuedSignals, trade_type \in TradeTypes :
           ExecuteTrade(signal, trade_type)
    \/ \E signal \in IssuedSignals, price \in ExitPrices :
           ExecuteTrade(ExitSignal(signal, price), "paper")
    \/ \E price_updates \in FlowPrices : UpdatePositionPrices(price_updates)
    \/ \E t \in TradeClock : Tick(t)

SpecFlow == Init /\ [][NextFlow]_vars

(***************************************************************************)
(* Properties.                                                             *)
(***************************************************************************)
\* C1 as stated: validate_trade returns true if and only if all seven checks
\* pass for the signal in the current state, in every state reached through
\* add_position, remove_position and update_settings.
C1_TrueIffAllChecksPass ==
    ret.op = "validate_trade" =>
        (ret.value <=> AllChecksPass(risk, ret.at, ret.arg))

\* C1, amended: while the risk manager is enabled validate_trade returns true
\* if and only if all seven checks pass; once update_settings has set enabled
\* to False it returns true whatever the checks say.
C1_TrueIffDisabledOrAllChecksPass ==
    ret.op = "validate_trade" =>
        (ret.value <=> (~risk.enabled \/ AllChecksPass(risk, ret.at, ret.arg)))

\* validate_trade has rejected a signal on the position limit that
\* update_settings lowered, with the manager enabled
C1_Witness ==
    /\ ret.op = "validate_trade"
    /\ risk.enabled
    /\ risk.max_positions_per_symbol = 1
    /\ Len(risk.current_positions) > 0
    /\ ~ret.value
    /\ FailedChecks(risk, ret.at, ret.arg) = {"position_limit_check"}

\* C2 as stated: every order that reached execution (a paper position opened
\* by execute_trade, a broker order placed by execute_live_trade or by
\* LiveTradingEngine.close_position) was preceded by a validate_trade call on
\* the same signal that returned true.
C2_OrdersWereValidated == \A o \in hist.orders : o.validated

\* C3 as stated: when the realized P&L of the positions closed today is a
\* loss of at least max_daily_loss, validate_trade rejects the signal.
C3_DailyLossRejects ==
    (ret.op = "validate_trade" /\ paper.daily_pnl <= 0 - risk.max_daily_loss)
        => ~ret.value

\* C4 as stated: the seven parameter weights are non-negative and sum to 1 in
\* every state, so after every run of optimize_weights, from
\* load_learning_data or from learn_from_outcome.
C4_WeightsSumToOne ==
    /\ \A p \in ParamSet : engine.parameter_weights.num[p] >= 0
    /\ SumSeq([i \in 1..Len(ParamNames) |-> engine.parameter_weights.num[ParamNames[i]]])
           = engine.parameter_weights.den

SignalAboveThreshold(sig) ==
    /\ sig.confidence.n * 10 >= ConfidenceThresholdTenths * 100 * sig.confidence.d
    /\ sig.action \in {"BUY", "SELL"}

\* C5: every signal generate_signals returns, and every signal in
\* signals_history, has confidence / 100 >= confidence_threshold and an action
\* of BUY or SELL; no signal carries HOLD.
C5_SignalsAboveThreshold ==
    /\ \A i \in 1..Len(engine.signals_history) :
           SignalAboveThreshold(engine.signals_history[i])
    /\ ret.op = "generate_signals" =>
           \A i \in 1..Len(ret.value) : SignalAboveThreshold(ret.value[i])

\* generate_signals has emitted a signal from a chain of which it dropped a
\* row, under weights the optimizer has changed
C5_Witness ==
    /\ ret.op = "generate_signals"
    /\ ret.value # <<>>
    /\ Len(ret.value) < Len(ret.arg)
    /\ engine.parameter_weights # DefaultWeights
    /\ Len(engine.signals_history) > 0

\* C6 as stated: called outside the trading window, generate_signals returns
\* the empty list, for every option chain.
C6_EmptyOutsideWindow ==
    (ret.op = "generate_signals" /\ ~is_trading_time(ret.at))
        => (ret.type = "list" /\ ret.value = <<>>)

\* C7 as stated: when validate_trade rejects a signal the caller receives a
\* structured result that names the failed checks, not a bare boolean.
C7_RejectionIsStructured ==
    (ret.op = "validate_trade" /\ ~AllChecksPass(risk, ret.at, ret.arg) /\ risk.enabled)
        => ret.type # "bool"

WithinPositionLimits ==
    /\ Len(risk.current_positions) <= risk.max_total_positions
    /\ \A i \in 1..Len(risk.current_positions) :
           SymbolPositions(risk, risk.current_positions[i].symbol)
               <= risk.max_positions_per_symbol

\* C8 as stated: when add_position is called only for trades validate_trade
\* has passed, with the limits unchanged, the tracked positions of each symbol
\* stay within max_positions_per_symbol and their total within
\* max_total_positions.
C8_ValidatedAddsWithinLimits == risk.enabled => WithinPositionLimits

\* C8, amended: the counts stay within the limits when the manager is enabled
\* and every add_position directly follows the validate_trade call that passed
\* that trade, with no other add_position in between.
C8_FreshlyValidatedAddsWithinLimits ==
    (risk.enabled /\ ~hist.add_stale) => WithinPositionLimits

\* a symbol is at its limit after adds that each followed their validation,
\* and validate_trade has rejected the next trade on the position limit
C8_Witness ==
    /\ risk.enabled
    /\ ~hist.add_stale
    /\ ret.op = "validate_trade"
    /\ ~ret.value
    /\ "position_limit_check" \in FailedChecks(risk, ret.at, ret.arg)
    /\ \E i \in 1..Len(risk.current_positions) :
           SymbolPositions(risk, risk.current_positions[i].symbol)
               = risk.max_positions_per_symbol

\* C9 as stated: validate_trade rejects every trade whose notional, added to
\* the value (price x quantity) of the positions tracked through add_position,
\* exceeds max_portfolio_risk.
C9_ExposureAboveLimitRejected ==
    (/\ ret.op = "validate_trade"
     /\ risk.enabled
     /\ SumSeq([i \in 1..Len(risk.current_positions) |->
                   risk.current_positions[i].current_price
                       * risk.current_positions[i].quantity])
            + EstimatedTradeValue(ret.arg) > risk.max_portfolio_risk)
        => ~ret.value

\* C10 as stated: RiskManager.current_positions tracks exactly the positions
\* open in the paper engine, one tracked position per open position.
C10_TrackingMatchesOpenPositions ==
    /\ Len(risk.current_positions)
           = Cardinality({ i \in 1..Len(paper.positions) : paper.positions[i].status = "open" })
    /\ \A i \in 1..Len(paper.positions) :
           paper.positions[i].status = "open"
               => \E j \in 1..Len(risk.current_positions) :
                      /\ risk.current_positions[j].symbol = paper.positions[i].symbol
                      /\ risk.current_positions[j].strike = paper.positions[i].strike
                      /\ risk.current_positions[j].type = paper.positions[i].type

\* the thresholds of the liquidity, spread and volatility checks applied to
\* the quote of an option-chain row
QuoteMeetsThresholds(r, row) ==
    LET quote == Quote(row.volume, row.oi, row.bid, row.ask, row.iv) @@ [ price |-> row.ltp ]
    IN  validate_liquidity(r, quote) /\ validate_spread(r, quote) /\ validate_volatility(r, quote)

\* signal was emitted for a row whose quote meets the thresholds
EmittedForGoodQuote(r, signal) ==
    \E option_chain \in Chains : \E k \in 1..Len(option_chain) :
        /\ DOMAIN option_chain[k] = DOMAIN RowStrongBuy
        /\ option_chain[k].strike = signal.strike
        /\ option_chain[k].type = signal.type
        /\ option_chain[k].ltp = signal.price
        /\ QuoteMeetsThresholds(r, option_chain[k])

\* C11: a signal emitted by generate_signals for a quote that meets the
\* liquidity, spread and volatility thresholds, handed unchanged to
\* validate_trade while the manager is enabled, the clock is inside the
\* trading window, no position is tracked and the daily P&L is zero, passes.
C11_EmittedSignalPassesValidation ==
    ( /\ ret.op = "validate_trade"
      /\ ret.arg \in IssuedSignals
      /\ EmittedForGoodQuote(risk, ret.arg)
      /\ risk.enabled
      /\ validate_trading_time(risk, ret.at)
      /\ risk.current_positions = <<>>
      /\ risk.daily_pnl = 0 )
    => ret.value = TRUE

\* C12: whenever a position that carries a signal_id has been closed, by a
\* SELL or by a stop-loss or take-profit exit, the learning log holds a
\* LearningRecord for that signal with the realized P&L of the position.
\* (Every position of SpecFlow is opened from an issued signal and carries
\* its id.)
C12_ClosedPositionsAreLearned ==
    \A i \in 1..Len(paper.positions) :
        paper.positions[i].status = "closed"
        => \E k \in 1..Len(engine.learning_data) :
               /\ engine.learning_data[k].signal_id = paper.positions[i].signal_id
               /\ engine.learning_data[k].pnl = paper.positions[i].realized_pnl

\* C13: calling learn_from_outcome a second time with the same signal_id and
\* identical outcome data leaves the learning log, the weights derived from
\* it and the persisted log as the first call left them.
C13_RepeatedOutcomeCountedOnce ==
    [][ ( /\ ret.op = "learn_from_outcome"
          /\ ret'.op = "learn_from_outcome"
          /\ ret'.arg = ret.arg )
        => /\ engine'.learning_data = engine.learning_data
           /\ engine'.parameter_weights = engine.parameter_weights
           /\ disk' = disk ]_vars

\* the realized P&L of the positions a step closes
NewlyRealized ==
    SumSeq([i \in 1..Len(paper.positions) |->
               IF paper.positions[i].status = "open" /\ paper'.positions[i].status = "closed"
               THEN paper'.positions[i].realized_pnl
               ELSE 0])

\* C14: a position is created open and its status only moves from open to
\* closed: a closed position is never changed again (not reopened, not
\* closed a second time), and a step adds to total_pnl and to daily_pnl
\* exactly the realized P&L of the positions it closes (daily_pnl restarting
\* from zero at reset_daily_counters).
C14_ClosedOnceAndCountedOnce ==
    [][ /\ Len(paper'.positions) >= Len(paper.positions)
        /\ \A i \in 1..Len(paper.positions) :
               /\ paper.positions[i].status = "closed"
                      => paper'.positions[i] = paper.positions[i]
               /\ paper'.positions[i].status \in {"open", "closed"}
        /\ \A i \in (Len(paper.positions) + 1)..Len(paper'.positions) :
               paper'.positions[i].status = "open"
        /\ paper'.total_pnl = paper.total_pnl + NewlyRealized
        /\ paper'.daily_pnl = IF ret'.op = "reset_daily_counters"
                              THEN 0
                              ELSE paper.daily_pnl + NewlyRealized ]_vars

\* two positions of one contract are closed and the latest call closed one
\* of them while the other was already closed
C14_Witness ==
    /\ ret.op = "execute_trade"
    /\ ret.value.outcome = "closed"
    /\ \E i, j \in 1..Len(paper.positions) :
           /\ i < j
           /\ PositionKey(paper.positions[i]) = PositionKey(paper.positions[j])
           /\ paper.positions[i].status = "closed"
           /\ paper.positions[j].status = "closed"
    /\ paper.total_pnl # 0

\* the arguments and settings of the latest calculate_position_size call;
\* the amount at risk is in hundredths, as position_size_percent is a percentage
SizedPricePerLot == Get(ret.arg.signal, "price", 0) * Get(ret.arg.signal, "lot_size", 75)

SizedAmount ==
    IF ret.arg.available_capital * risk.position_size_percent <= risk.max_loss_per_trade * 100
    THEN ret.arg.available_capital * risk.position_size_percent
    ELSE risk.max_loss_per_trade * 100

\* n = max(1, floor(amount / price_per_lot)): n is at least 1, n lots cost no
\* more than the amount unless n is the minimum, and n + 1 lots cost more
IsClampedFloor(n) ==
    /\ n >= 1
    /\ (n = 1 \/ n * SizedPricePerLot * 100 <= SizedAmount)
    /\ (n + 1) * SizedPricePerLot * 100 > SizedAmount

\* C15 as stated: for every signal and every available_capital,
\* calculate_position_size returns at least 1 lot, namely
\* max(1, floor(min(capital * position_size_percent, max_loss_per_trade)
\*              / (price * lot_size))) where price * lot_size is positive.
C15_AtLeastOneLot ==
    ret.op = "calculate_position_size"
    => /\ ret.value >= 1
       /\ SizedPricePerLot > 0 => IsClampedFloor(ret.value)

\* C15 amended: with available_capital > 0 the result is the clamped floor
\* when price * lot_size is positive and 1 lot otherwise; with
\* available_capital <= 0 it is 0.
C15_AtLeastOneLotWithCapital ==
    ret.op = "calculate_position_size"
    => IF ret.arg.available_capital <= 0 THEN ret.value = 0
       ELSE IF SizedPricePerLot <= 0 THEN ret.value = 1
       ELSE IsClampedFloor(ret.value)

\* the example of the claim: 2% of 100000 is 2000, less than one lot of 3750
C15_Witness ==
    /\ ret.op = "calculate_position_size"
    /\ ret.arg.available_capital = 100000
    /\ ret.arg.signal = [ symbol |-> "NIFTY", price |-> 50, lot_size |-> 75 ]
    /\ risk.position_size_percent = 2
    /\ risk.max_loss_per_trade = 5000
    /\ ret.value = 1

\* stop_loss and take_profit of a position are entry * (1 - stop_loss_percent)
\* and entry * (1 + take_profit_percent) for the configured percentages
ExitsFromSettings(position) ==
    /\ position.stop_loss * 100 = position.entry_price * (100 - risk.stop_loss_percent)
    /\ position.take_profit * 100 = position.entry_price * (100 + risk.take_profit_percent)
    /\ position.entry_price > 0
           => position.stop_loss < position.entry_price
              /\ position.entry_price < position.take_profit

\* C16: every position created on entry, CALL or PUT, has its stop_loss and
\* take_profit computed from the risk percentages configured at the time,
\* and so stop_loss < entry_price < take_profit when entry_price > 0.  (In
\* SpecFlow the percentages are configured before the first position.)
C16_ExitsFromConfiguredPercentages ==
    /\ \A i \in 1..Len(paper.positions) : ExitsFromSettings(paper.positions[i])
    /\ \A i \in 1..Len(risk.current_positions) : ExitsFromSettings(risk.current_positions[i])

\* C17: signals_history never holds more than 1000 entries, and it holds
\* exactly the most recently appended signals in the order they were
\* appended.  Signals are appended in the order their ids are issued, uuid
\* being the id of the latest, so the history is the run of ids ending at uuid.
C17_HistoryIsLastThousand ==
    LET history == engine.signals_history
    IN  /\ Len(history) <= HistoryCap
        /\ Len(history) = IF uuid <= HistoryCap THEN uuid ELSE HistoryCap
        /\ \A k \in 1..Len(history) : history[k].id = uuid - Len(history) + k

\* the latest call appended signals to a full history and the oldest left it
C17_Witness ==
    /\ ret.op = "generate_signals"
    /\ ret.type = "list"
    /\ Len(ret.value) >= 1
    /\ uuid > HistoryCap
    /\ Len(engine.signals_history) = HistoryCap
    /\ engine.signals_history[1].id > 1

\* the rows of a chain with the contract of a signal
RowsOf(option_chain, signal) ==
    { k \in 1..Len(option_chain) :
         option_chain[k].type = signal.type /\ option_chain[k].strike = signal.strike }

\* the row a signal was made from: the last row of its contract
LastRowOf(option_chain, signal) ==
    CHOOSE k \in RowsOf(option_chain, signal) : \A j \in RowsOf(option_chain, signal) : j <= k

\* the row where the contract of a signal first appears
FirstRowOf(option_chain, signal) ==
    CHOOSE k \in RowsOf(option_chain, signal) : \A j \in RowsOf(option_chain, signal) : k <= j

SameConfidence(a, b) == ~ConfLess(a, b) /\ ~ConfLess(b, a)

\* C18 as stated: generate_signals returns its signals sorted by confidence,
\* highest first, and signals of equal confidence in the order of their rows
\* in the supplied option chain.
C18_DescendingTiesInRowOrder ==
    (ret.op = "generate_signals" /\ ret.type = "list")
    => \A i, j \in 1..Len(ret.value) :
           i < j => /\ ~ConfLess(ret.value[i], ret.value[j])
                    /\ SameConfidence(ret.value[i], ret.value[j])
                           => LastRowOf(ret.arg, ret.value[i]) < LastRowOf(ret.arg, ret.value[j])

\* C18 amended: highest confidence first, and signals of equal confidence in
\* the order in which their contracts (type, strike) first appear in the chain.
C18_DescendingTiesInFirstRowOrder ==
    (ret.op = "generate_signals" /\ ret.type = "list")
    => \A i, j \in 1..Len(ret.value) :
           i < j => /\ ~ConfLess(ret.value[i], ret.value[j])
                    /\ SameConfidence(ret.value[i], ret.value[j])
                           => FirstRowOf(ret.arg, ret.value[i]) < FirstRowOf(ret.arg, ret.value[j])

\* a scan whose weakest signal comes from the first row and whose other two
\* signals tie: the tie keeps row order and both precede the weaker signal
C18_Witness ==
    /\ ret.op = "generate_signals"
    /\ ret.arg = <<RowBuyWide, RowStrongBuy, RowStrongNear>>
    /\ Len(ret.value) = 3
    /\ ret.value[1].strike = RowStrongBuy.strike
    /\ ret.value[2].strike = RowStrongNear.strike
    /\ ret.value[3].strike = RowBuyWide.strike
    /\ SameConfidence(ret.value[1], ret.value[2])
    /\ ConfLess(ret.value[3], ret.value[2])

\* C19: learn_from_outcome called with a signal_id that is not in
\* signals_history, never issued or already evicted by the cap, returns
\* without an error and changes nothing: learning_data, parameter_weights
\* and the trained-model flag keep their values and nothing is persisted.
C19_UnknownSignalIsNoOp ==
    [][ ( /\ ret'.op = "learn_from_outcome"
          /\ FindSignal(engine.signals_history, ret'.arg[1]) = <<>> )
        => /\ engine' = engine
           /\ disk' = disk
           /\ ret'.type = "NoneType" ]_vars

\* the latest call reported an outcome for signal 1 after the cap had
\* evicted it from a full history
C19_Witness ==
    /\ ret.op = "learn_from_outcome"
    /\ ret.arg[1] = 1
    /\ Len(engine.signals_history) = HistoryCap
    /\ FindSignal(engine.signals_history, 1) = <<>>
    /\ engine.learning_data = <<>>

\* a row that lacks one of the required numeric fields
Malformed(row) ==
    \E c \in {"strike", "delta", "ltp"} : c \notin DOMAIN row \/ row[c] = NaN

\* the contracts and actions of a list of signals
Contracts(signals) ==
    { <<signals[i].type, signals[i].strike, signals[i].action>> : i \in 1..Len(signals) }

\* C20: a row that lacks a required field aborts the scoring of that row
\* only: generate_signals raises nothing, emits no signal for the malformed
\* row, and returns the signals of the remaining rows, those it returns for
\* the chain without the malformed rows.
C20_MalformedRowIsSkipped ==
    (ret.op = "generate_signals" /\ ret.arg # <<>> /\ is_trading_time(ret.at))
    => /\ ret.type = "list"
       /\ Contracts(ret.value)
              = Contracts(generate_signals(
                              engine, "NIFTY",
                              SelectSeq(ret.arg, LAMBDA row : ~Malformed(row)),
                              22000, ret.at, 1))

\* ---------------------------------------------------------------------------
\* Construction over a damaged data directory
\* ---------------------------------------------------------------------------

LoadFiles ==
    { Missing, Corrupt, Unreadable,
      File(MakeLog(21, PastRecord(RowStrongBuy, 500), PastRecord(RowBuyWide, 100))) }

\* data/learning_data.json is replaced from outside the process
ReplaceLearningFile(file) ==
    /\ file # disk.learning_data
    /\ disk' = [ disk EXCEPT !.learning_data = file ]
    /\ UNCHANGED <<learner, now, uuid, risk, paper, live, engine, ret, hist>>

\* the constructor call raised: there is no engine object to call
ConstructorRaised == ret.op = "AISignalEngine" /\ ret.type # "AISignalEngine"

InitLoad ==
    /\ InitObjects
    /\ disk = [ learning_data |-> Missing ]
    /\ engine = AISignalEngineInit(disk)

NextLoad ==
    \/ \E file \in LoadFiles : ReplaceLearningFile(file)
    \/ ConstructEngine
    \/ /\ ~ ConstructorRaised
       /\ \E option_chain \in Chains, underlying_price \in UnderlyingPrices :
              GenerateSignals("NIFTY", option_chain, underlying_price)
    \/ \E t \in SignalClock : Tick(t)

SpecLoad == InitLoad /\ [][NextLoad]_vars

\* C21: whenever the constructor of AISignalEngine has run over a learning
\* file that could not be loaded (missing, unreadable or corrupt), it has
\* returned an engine, and that engine has the default weights and an empty
\* learning log.
C21_ConstructsOverFailedLoad ==
    (ret.op = "AISignalEngine" /\ ret.arg # "loaded")
        => /\ ret.type = "AISignalEngine"
           /\ engine.parameter_weights = DefaultWeights
           /\ engine.learning_data = <<>>

\* the part that the code does: a missing file gives an engine with defaults
C21_MissingFileGivesDefaults ==
    (ret.op = "AISignalEngine" /\ ret.arg = "FileNotFoundError")
        => /\ ret.type = "AISignalEngine"
           /\ engine.parameter_weights = DefaultWeights
           /\ engine.learning_data = <<>>

\* C22: whatever outcome recordings, optimizations and reloads came before,
\* every contract scored by a scan has an aggregated confidence between 0 and
\* 1, and every signal emitted or kept in the history has a confidence between
\* 0 and 100 (percent).
C22_ConfidenceInRange ==
    /\ (ret.op = "generate_signals" /\ ret.type = "list")
       => /\ \A k \in 1..Len(ret.arg), underlying_price \in UnderlyingPrices :
                 LET cnum == ConfidenceNum(RowParams(ret.arg[k], underlying_price),
                                           engine.parameter_weights)
                 IN  /\ \A key \in DOMAIN RowParams(ret.arg[k], underlying_price) :
                            RowParams(ret.arg[k], underlying_price)[key] \in 0..10
                     /\ 0 <= cnum
                     /\ cnum <= 10 * engine.parameter_weights.den
          /\ \A i \in 1..Len(ret.value) :
                 /\ 0 <= ret.value[i].confidence.n
                 /\ ret.value[i].confidence.n <= 100 * ret.value[i].confidence.d
    /\ \A i \in 1..Len(engine.signals_history) :
           /\ 0 <= engine.signals_history[i].confidence.n
           /\ engine.signals_history[i].confidence.n
                  <= 100 * engine.signals_history[i].confidence.d

\* a scan under weights that an optimization has changed emitted a signal
C22_Witness ==
    /\ ret.op = "generate_signals"
    /\ ret.type = "list"
    /\ Len(ret.value) > 0
    /\ engine.parameter_weights # DefaultWeights
    /\ Len(engine.learning_data) >= 50

\* C23: once the engine is constructed, a step changes parameter_weights only
\* if it is a learn_from_outcome call that appends a record and brings the
\* learning log to a length that is a multiple of 30 and at least 50; every
\* other step, and a call that reaches a multiple of 30 below 50 records,
\* leaves the weights as they were.
C23_WeightsChangeOnlyAtOptimization ==
    [][engine'.parameter_weights # engine.parameter_weights
          => /\ ret'.op = "learn_from_outcome"
             /\ Len(engine'.learning_data) = Len(engine.learning_data) + 1
             /\ Len(engine'.learning_data) % 30 = 0
             /\ Len(engine'.learning_data) >= 50]_vars

\* the 60th record has been learnt and the weights differ from those the
\* engine had while the log held 58 and 59 records
C23_Witness ==
    /\ ret.op = "learn_from_outcome"
    /\ Len(engine.learning_data) = 60
    /\ engine.parameter_weights
           # NormalizedWeights(LastRecords(SubSeq(engine.learning_data, 1, 58), 100),
                               DefaultWeights)

\* the 30th record has been learnt and the weights are still the defaults
C23_SkippedBelowFifty ==
    /\ ret.op = "learn_from_outcome"
    /\ Len(engine.learning_data) = 30
    /\ engine.parameter_weights = DefaultWeights

\* the sub-score of parameter ParamNames[i] in a learning record: the i-th
\* entry of the params dict
SubScore(record, i) == record.parameters[ScoreNames[i]]

\* the pre-normalization weight of C24: the clamped mean of the pnl of the
\* records of the window whose sub-score is above 0.6, or the previous weight
\* when there is no such record
StatedRawWeight(window, weights, i) ==
    LET high == SelectSeq(window, LAMBDA record : SubScore(record, i) > 6)
    IN  IF high # <<>>
        THEN ClampedWeight([k \in 1..Len(high) |-> high[k].pnl])
        ELSE Reduced(weights.num[ParamNames[i]], weights.den)

\* whether weights `after` are the seven stated pre-normalization values, each
\* divided by the sum of the seven
IsStatedOptimization(window, before, after) ==
    LET raw == [i \in 1..Len(ParamNames) |-> StatedRawWeight(window, before, i)]
        common == LCMSeq([i \in 1..Len(ParamNames) |-> raw[i].d])
        scaled == [i \in 1..Len(ParamNames) |-> raw[i].n * (common \div raw[i].d)]
    IN  \A i \in 1..Len(ParamNames) :
            after.num[ParamNames[i]] * SumSeq(scaled) = scaled[i] * after.den

\* a learn_from_outcome step that runs optimize_weights past its minimum
OptimizingStep ==
    /\ ret'.op = "learn_from_outcome"
    /\ Len(engine'.learning_data) = Len(engine.learning_data) + 1
    /\ Len(engine'.learning_data) % 30 = 0
    /\ Len(engine'.learning_data) >= 50

\* C24: an optimization gives each parameter that has a record with sub-score
\* above 0.6 among the last 100 the weight clamp(mean pnl of those records /
\* 1000 + 0.15, 0.05, 0.35), leaves every other parameter its previous weight,
\* and then divides all seven by their sum.
C24_OptimizedWeightsAsStated ==
    [][OptimizingStep
          => IsStatedOptimization(LastRecords(engine'.learning_data, 100),
                                  engine.parameter_weights,
                                  engine'.parameter_weights)]_vars

\* the same for the six parameters whose score key optimize_weights finds:
\* each gets its stated pre-normalization value divided by the sum of the six
C24_FoundParametersAsStated ==
    [][OptimizingStep
          => LET window == LastRecords(engine'.learning_data, 100)
                 found == SelectSeq([i \in 1..Len(ParamNames) |-> i],
                                    LAMBDA i : ParamNames[i] # "oi_change")
                 raw == [i \in 1..Len(ParamNames) |->
                            StatedRawWeight(window, engine.parameter_weights, i)]
                 common == LCMSeq([i \in 1..Len(ParamNames) |-> raw[i].d])
                 scaled == [i \in 1..Len(ParamNames) |-> raw[i].n * (common \div raw[i].d)]
                 total == SumSeq([k \in 1..Len(found) |-> scaled[found[k]]])
             IN  \A k \in 1..Len(found) :
                     engine'.parameter_weights.num[ParamNames[found[k]]] * total
                         = scaled[found[k]] * engine'.parameter_weights.den]_vars

\* ---------------------------------------------------------------------------
\* determine_action on its own
\* ---------------------------------------------------------------------------

\* sub-scores in tenths on both sides of every threshold of determine_action
ActionParameters ==
    [ delta_score : {2, 3, 6, 8},
      oi_score : {4, 5, 7},
      volume_score : {4, 5, 6},
      momentum_score : {2, 5, 6, 7},
      iv_score : {1, 2},
      spread_score : {5},
      liquidity_score : {5} ]

\* confidences 0.5, just above 0.5, 0.7 and just above 0.7, as numerators over
\* ten times the weight denominator
ActionConfidences ==
    { 5 * DefaultWeights.den, 5 * DefaultWeights.den + 1,
      7 * DefaultWeights.den, 7 * DefaultWeights.den + 1 }

\* the arguments of a call that has not been made yet
InitAction ==
    /\ now = At(0, 12, 0, 0)
    /\ uuid = 0
    /\ risk = RiskManagerInit
    /\ paper = PaperTradingEngineInit
    /\ live = LiveTradingEngineInit
    /\ disk = [ learning_data |-> Missing ]
    /\ engine = AISignalEngineInit(disk)
    /\ hist = HistInit
    /\ learner = AILearningSystemInit(<<>>)
    /\ \E parameters \in ActionParameters, cnum \in ActionConfidences :
           ret = RetUntimed(None,
                            [ parameters |-> parameters,
                              confidence |-> [ n |-> cnum,
                                               d |-> 10 * DefaultWeights.den ] ],
                            None, None, <<>>)

DetermineAction ==
    /\ ret.op = None
    /\ ret' = RetUntimed("determine_action", ret.arg,
                         determine_action(ret.arg.parameters, ret.arg.confidence.n,
                                          engine.parameter_weights),
                         "str", <<>>)
    /\ UNCHANGED <<learner, now, uuid, risk, paper, live, engine, disk, hist>>

NextAction == DetermineAction

SpecAction == InitAction /\ [][NextAction]_vars

\* the three conditions of C25 on the arguments of the last call
StrongBuy(p) ==
    p.delta_score > 7 /\ p.oi_score > 6 /\ p.volume_score > 5 /\ p.momentum_score > 6

ModerateBuy(p) ==
    p.delta_score > 5 /\ p.oi_score > 4 /\ (p.volume_score > 4 \/ p.momentum_score > 5)

ExitCondition(p) == p.delta_score < 3 \/ p.momentum_score < 3 \/ p.iv_score < 2

\* confidence > tenths / 10
ConfidenceAbove(c, tenths) == 10 * c.n > tenths * c.d

BuyHolds(a) ==
    StrongBuy(a.parameters) \/ (ModerateBuy(a.parameters) /\ ConfidenceAbove(a.confidence, 7))

SellHolds(a) == ExitCondition(a.parameters) /\ ConfidenceAbove(a.confidence, 5)

\* C25: determine_action returns BUY exactly when the strong-buy condition
\* holds or the moderate-buy condition holds with confidence above 0.7; SELL
\* exactly when that is not so and an exit condition holds with confidence
\* above 0.5; HOLD otherwise. BUY wins when both conditions hold.
C25_ActionAsStated ==
    ret.op = "determine_action"
    => /\ ret.value = "BUY" <=> BuyHolds(ret.arg)
       /\ ret.value = "SELL" <=> (~ BuyHolds(ret.arg) /\ SellHolds(ret.arg))
       /\ ret.value = "HOLD" <=> (~ BuyHolds(ret.arg) /\ ~ SellHolds(ret.arg))

\* a call in which both the BUY and the SELL condition hold has returned BUY
C25_Witness ==
    /\ ret.op = "determine_action"
    /\ BuyHolds(ret.arg)
    /\ SellHolds(ret.arg)
    /\ ret.value = "BUY"

\* minutes since midnight of an (hour, minute) pair
MinuteOfDay(hm) == 60 * hm[1] + hm[2]

\* the trading-time condition of C26: a weekday, inside the market hours and
\* inside [no_trade_before, no_trade_after]
StatedTradingTime(r, t) ==
    /\ t.weekday < 5
    /\ MinuteOfDay(r.market_open_time) <= 60 * t.hour + t.minute
    /\ 60 * t.hour + t.minute <= MinuteOfDay(r.market_close_time)
    /\ MinuteOfDay(r.no_trade_before) <= 60 * t.hour + t.minute
    /\ 60 * t.hour + t.minute <= MinuteOfDay(r.no_trade_after)

\* the failed checks validate_trade has printed
PrintedFailures == { ret.printed[i] : i \in 1..Len(ret.printed) }

\* C26 as stated: the trading-time check of a validate_trade call passes
\* exactly on a weekday inside the market hours and inside [no_trade_before,
\* no_trade_after], and a validate_trade call at 03:00 is rejected with
\* time_check among the failed checks.
C26_TimeCheckGatesEveryCall ==
    ret.op = "validate_trade"
    => /\ ValidationResults(risk, ret.at, ret.arg).time_check
              <=> StatedTradingTime(risk, ret.at)
       /\ (ret.at.hour = 3 /\ ret.at.minute = 0)
              => (~ ret.value /\ "time_check" \in PrintedFailures)

\* C26, amended: the trading-time check passes exactly under the stated
\* condition, and while the risk manager is enabled a validate_trade call at
\* 03:00 is rejected with time_check among the failed checks.
C26_TimeCheckGatesEnabledCall ==
    ret.op = "validate_trade"
    => /\ ValidationResults(risk, ret.at, ret.arg).time_check
              <=> StatedTradingTime(risk, ret.at)
       /\ (risk.enabled /\ ret.at.hour = 3 /\ ret.at.minute = 0)
              => (~ ret.value /\ "time_check" \in PrintedFailures)

\* a call at 03:00 on a Monday has been rejected on time_check alone
C26_Witness ==
    /\ ret.op = "validate_trade"
    /\ risk.enabled
    /\ ret.at = At(0, 3, 0, 0)
    /\ ~ ret.value
    /\ PrintedFailures = {"time_check"}

\* ---------------------------------------------------------------------------
\* Automatic exits with several positions in one contract
\* ---------------------------------------------------------------------------

\* a second entry into NIFTY 22000 CE, at 400 where signal 11 enters at 250
ExitSignals ==
    TradeSignals \cup
    { [ id |-> 17, symbol |-> "NIFTY", strike |-> 22000, type |-> "CE", action |-> "BUY",
        confidence |-> 70, reasoning |-> "Strong delta", price |-> 400 ] }

\* quotes of NIFTY 22000 CE that breach the stop of the entry at 400 and no
\* exit of the entry at 250 (250), and the target of the entry at 250 and no
\* exit of the entry at 400 (400)
ExitUpdates ==
    PriceUpdates \cup { (<<"NIFTY", "CE", 22000>> :> 250),
                        (<<"NIFTY", "CE", 22000>> :> 400) }

NextExits ==
    \/ \E signal \in ExitSignals, trade_type \in TradeTypes : ExecuteTrade(signal, trade_type)
    \/ \E price_updates \in ExitUpdates : UpdatePositionPrices(price_updates)

SpecExits == Init /\ [][NextExits]_vars

\* the price of a position is at or beyond one of its own exits
Breaches(position) ==
    \/ position.current_price <= position.stop_loss
    \/ position.current_price >= position.take_profit

\* C27: when update_position_prices has completed, every position that was
\* open before the call is closed if its updated price is at or below its
\* stop_loss or at or above its take_profit, and is still open otherwise.
C27_ExactlyBreachingPositionsClosed ==
    [][ret'.op = "update_position_prices"
          => \A i \in 1..Len(paper.positions) :
                 paper.positions[i].status = "open"
                 => (paper'.positions[i].status = "closed"
                         <=> Breaches(paper'.positions[i]))]_vars

\* the same when no two open positions share symbol, strike and type
C27_ExactWithDistinctContracts ==
    [][(/\ ret'.op = "update_position_prices"
        /\ \A i, j \in 1..Len(paper.positions) :
               (/\ i # j
                /\ paper.positions[i].status = "open"
                /\ paper.positions[j].status = "open")
               => PositionKey(paper.positions[i]) # PositionKey(paper.positions[j]))
          => \A i \in 1..Len(paper.positions) :
                 paper.positions[i].status = "open"
                 => (paper'.positions[i].status = "closed"
                         <=> Breaches(paper'.positions[i]))]_vars

\* entry_price x quantity x lot_size summed over the open positions
OpenEntryCost(positions) ==
    SumSeq([i \in 1..Len(positions) |->
               IF positions[i].status = "open"
               THEN positions[i].entry_price * positions[i].quantity * positions[i].lot_size
               ELSE 0])

\* realized_pnl summed over the closed positions
RealizedTotal(positions) ==
    SumSeq([i \in 1..Len(positions) |->
               IF positions[i].status = "closed" THEN positions[i].realized_pnl ELSE 0])

\* C28: from a fresh paper engine, after any opens, closes and price updates
\* with their automatic exits, available_balance plus the entry cost of the
\* open positions equals the initial balance plus total_pnl, and total_pnl is
\* the sum of the realized P&L of the closed positions.
C28_BalanceConserved ==
    /\ paper.available_balance + OpenEntryCost(paper.positions)
           = PaperTradingEngineInit.available_balance + paper.total_pnl
    /\ paper.total_pnl = RealizedTotal(paper.positions)

\* one position was closed with a profit or a loss by an automatic exit while
\* another is still open
C28_Witness ==
    /\ ret.op = "update_position_prices"
    /\ paper.total_pnl # 0
    /\ \E i, j \in 1..Len(paper.positions) :
           /\ paper.positions[i].status = "closed"
           /\ paper.positions[j].status = "open"

\* ---------------------------------------------------------------------------
\* Rejected paper-engine operations
\* ---------------------------------------------------------------------------

\* a paper engine that has opened n paper positions in BANKNIFTY 48000 PE today
RECURSIVE EngineAfterOpens(_)
EngineAfterOpens(n) ==
    IF n = 0
    THEN PaperTradingEngineInit
    ELSE open_position(EngineAfterOpens(n - 1),
                       [ id |-> 13, symbol |-> "BANKNIFTY", strike |-> 48000, type |-> "PE",
                         action |-> "BUY", confidence |-> 64, reasoning |-> "Strong delta",
                         price |-> 100, quantity |-> 2, lot_size |-> 15 ],
                       "paper", 100 + n)

\* entries made before the first step: none, or one short of max_daily_trades
EarlierOpens == {0, 4}

InitReject ==
    /\ now = At(0, 12, 0, 0)
    /\ uuid = 0
    /\ risk = RiskManagerInit
    /\ \E n \in EarlierOpens : paper = EngineAfterOpens(n)
    /\ live = LiveTradingEngineInit
    /\ disk = [ learning_data |-> Missing ]
    /\ engine = AISignalEngineInit(disk)
    /\ ret = RetInit
    /\ hist = HistInit
    /\ learner = AILearningSystemInit(<<>>)

NextReject ==
    \E signal \in TradeSignals, trade_type \in TradeTypes : ExecuteTrade(signal, trade_type)

SpecReject == InitReject /\ [][NextReject]_vars

\* the result says the operation was rejected for one of the three reasons
RejectedResult(value) ==
    value.outcome \in {"insufficient_balance", "daily_limit", "no_open_position"}

\* C30: an open rejected for insufficient balance or for the daily paper-trade
\* limit, and a close that finds no matching open position, return
\* success = false and leave available_balance, positions, trade_history,
\* trades_today, daily_pnl and total_pnl as they were.
C30_RejectionChangesNothing ==
    [][(ret'.op = "execute_trade" /\ RejectedResult(ret'.value))
          => /\ ~ ret'.value.success
             /\ paper'.available_balance = paper.available_balance
             /\ paper'.positions = paper.positions
             /\ paper'.trade_history = paper.trade_history
             /\ paper'.trades_today = paper.trades_today
             /\ paper'.daily_pnl = paper.daily_pnl
             /\ paper'.total_pnl = paper.total_pnl]_vars

\* a paper entry has been rejected on the daily limit after five entries, while
\* the balance would have covered it
C30_Witness ==
    /\ ret.op = "execute_trade"
    /\ ret.value.outcome = "daily_limit"
    /\ ~ ret.value.success
    /\ paper.trades_today = paper.max_daily_trades
    /\ Len(paper.positions) = 5
    /\ paper.available_balance >= 18750

\* ---------------------------------------------------------------------------
\* AILearningSystem.add_learning_record around its retraining points and cap
\* ---------------------------------------------------------------------------

\* log lengths at construction: none, two short of a multiple of 20, two
\* short of the cap
LearnerLens == {0, 58, 998}

LearnerSignals ==
    { [ id |-> 1, symbol |-> "NIFTY", strike |-> 21500, type |-> "CE", action |-> "BUY",
        confidence |-> 68, underlying_price |-> 22000 ],
      [ id |-> 2, symbol |-> "NIFTY", strike |-> 0, type |-> "CE", action |-> "BUY",
        confidence |-> 68, underlying_price |-> 22000 ] }

LearnerOutcomes ==
    { [ pnl |-> 500, exit_reason |-> "take_profit" ],
      [ pnl |-> 0 - 300 ],
      [ exit_reason |-> "stop_loss" ] }

\* a log of n records written by earlier add_learning_record calls
PrefilledLog(n) ==
    [i \in 1..n |->
        AIRecord([ id |-> 0, symbol |-> "NIFTY", strike |-> 21500, type |-> "CE",
                   action |-> "BUY" ],
                 IF i % 2 = 1 THEN [ pnl |-> 500 ] ELSE [ pnl |-> 0 - 300 ])]

InitRetrain ==
    /\ now = At(0, 12, 0, 0)
    /\ uuid = 0
    /\ risk = RiskManagerInit
    /\ paper = PaperTradingEngineInit
    /\ live = LiveTradingEngineInit
    /\ disk = [ learning_data |-> Missing ]
    /\ engine = AISignalEngineInit(disk)
    /\ ret = RetInit
    /\ \E n \in LearnerLens :
           /\ learner = AILearningSystemInit(PrefilledLog(n))
           /\ hist = [HistInit EXCEPT !.added = n]

AddLearningRecord(signal_data, outcome_data) ==
    /\ \E n \in LearnerLens : n <= hist.added /\ hist.added < n + MaxAdded
    /\ learner' = add_learning_record(learner, signal_data, outcome_data)
    /\ ret' = RetUntimed("add_learning_record", <<signal_data, outcome_data>>,
                         AddOutcome(signal_data) = "added", "bool",
                         IF AddOutcome(signal_data) = "added"
                         THEN <<>>
                         ELSE <<"Error adding learning record">>)
    /\ hist' = IF AddOutcome(signal_data) = "added"
               THEN [hist EXCEPT !.added = @ + 1]
               ELSE hist
    /\ UNCHANGED <<now, uuid, risk, paper, live, engine, disk>>

NextRetrain ==
    \E signal_data \in LearnerSignals, outcome_data \in LearnerOutcomes :
        AddLearningRecord(signal_data, outcome_data)

SpecRetrain == InitRetrain /\ [][NextRetrain]_vars

\* the step is an add_learning_record call that appended a record
AddedRecord == ret'.op = "add_learning_record" /\ hist'.added = hist.added + 1

\* the step trained the models
Retrained == Len(learner'.learning_curve) = Len(learner.learning_curve) + 1

\* C29: add_learning_record retrains exactly when the number of records added
\* so far reaches a multiple of 20, once per 20 added records and not in
\* between, also after the log has reached its cap of 1000 records.
C29_RetrainsOncePerTwentyAdded ==
    [][AddedRecord => (Retrained <=> hist'.added % RetrainEvery = 0)]_vars

\* the same while the log holds fewer records than the cap after the call
C29_RetrainsOncePerTwentyBelowCap ==
    [][(AddedRecord /\ hist'.added <= LearningCap)
          => (Retrained <=> hist'.added % RetrainEvery = 0)]_vars

====
